---- MODULE Spec2Model ----
(***************************************************************************)
(* The conversation-tab state machine of the renderer (src/unnamed/part_000,*)
(* second module, lines 1108-2487; the first module, lines 1-1106, is the   *)
(* same code with displayMode in place of tabType and without history       *)
(* loading).  Every event handler is one action; an async handler is one    *)
(* action per stretch between two awaits.                                   *)
(*                                                                         *)
(* The page is checked in these specifications over the same state and     *)
(* actions:                                                                *)
(*   Spec       the tab registry over restarts of the page: startup and    *)
(*              restore, the new-tab flow, the tab bar, the edits;         *)
(*   SpecChat   the sends of the input box and the bridge's answers, on    *)
(*              up to MaxChatTabIds tabs, in one run of the page;          *)
(*   SpecChatLive SpecChat with a bridge that answers every message;       *)
(*   SpecCli    one tab over restarts, with its terminal, the input box,   *)
(*              the bridge's answers and the history the restore loads;    *)
(*   SpecCalls  createTab, switchTab, closeTab and updateTabName called    *)
(*              directly, in any order and with any argument;              *)
(*   SpecSwitch switchTab and closeTab called directly on restored gui and *)
(*              cli tabs;                                                  *)
(*   SpecAttach the uploads and removals of attachments and the sends that *)
(*              flush them, in one run of the page;                        *)
(*   SpecStop   SpecChat with the stop button;                             *)
(*   SpecRestore startup over a localStorage the page did not write;       *)
(*   SpecHistory startup over two stored tabs with conversations, and the  *)
(*              history the bridge returns for them;                       *)
(*   SpecLogin  startup, the tab bar and the login button, whose handler   *)
(*              runs init() again on the same page;                        *)
(*   SpecLoginLive SpecLogin with the login button of a page that started  *)
(*              unauthenticated, clicked again and again;                  *)
(*   SpecLate   one tab's sends, with stream events that arrive after the  *)
(*              send has ended;                                            *)
(*   SpecTerm   one tab and the keys its terminal receives;                *)
(*   SpecZencli the mode command of the zencli program (src/src/zencli),   *)
(*              which shares no state with the page;                       *)
(*   SpecAccounts the account functions of zencli's ConfigStorage          *)
(*              (src/unnamed/part_002), called in any order, overlapping;  *)
(*   SpecConfig CLIUI.updateConfig called by the menu's commands, two      *)
(*              calls overlapping where the command does not await it.     *)
(* localStorage holds what the page itself wrote: a first run starts with  *)
(* none, and Restart keeps what the run before it saved.  SpecRestore      *)
(* starts with a localStorage of any content, SpecHistory with one that    *)
(* an earlier run left.                                                    *)
(***************************************************************************)
EXTENDS Integers, Sequences, FiniteSets, TLC

\* ------------------------------------------------------------------ bounds
\* tab ids crypto.randomUUID hands out in one behaviour
MaxTabIds == 4
\* sendMessage invocations that get past the empty-input return
MaxSends == 2
\* rename, model-selector and mode-toggle gestures
MaxEdits == 1
\* characters a terminal's inputBuffer holds
MaxBuf == 1
\* tab ids handed out in a behaviour that sends messages
MaxChatTabIds == 2
\* tab ids handed out in a behaviour that uses the terminal
MaxCliTabIds == 1
\* stopResponse calls awaiting the bridge's answer at one time
MaxStops == 1
\* entries of a stored chatTabs array the page did not write itself
MaxStored == 3
\* runs of the #login-btn handler in one run of the page
MaxLogins == 1
\* calls of the account functions and of CLIUI.updateConfig in one run of
\* zencli
MaxCfgCalls == 2
\* sendMessage invocations in a behaviour that uploads files
MaxAttachSends == 1
\* files uploaded in one behaviour (the attachment ids crypto.randomUUID
\* hands out)
MaxAttachments == 2

\* ------------------------------------------------------ program constants
MAX_TABS == 3

\* null / "" of a string-typed id (tab id, conversation id, DOM element)
Null == 0

\* null of a message uuid
NoUuid == <<>>

\* an absent (undefined / empty) tab name
NoName == <<>>

\* null of selectedAccountForNewTab
NoAccount == ""

\* the default model createTab gives a tab
DefaultModel == "opus"

Models == {"opus", "sonnet"}

TabTypes == {"gui", "cli"}

\* the accounts the bridge knows (getAccounts / getActiveAccount)
AccountIds == {"acc1"}

\* the accountIds of the accounts zencli stores
ClaudeAccountIds == {"u1", "u2"}

\* what the #input textarea can hold when the user sends, as character
\* sequences
InputTexts == {<<>>, <<" ">>, <<" ", "<">>}

\* the name a rename prompt or a conversation's history can give a tab
CustomName == <<"named", 0>>

\* ------------------------------------------------------------------- state
VARIABLES
  pc,          \* where init() stands: start, login, accounts, defaultAccount,
               \* history, ready
  tabs,        \* the tabs array, as the ids of its ChatTab objects in order
  heap,        \* the ChatTab objects, by id (closed ones while still referenced)
  activeTabId,
  accounts,
  selectedAccountForNewTab,
  selectedTabType,
  modalOpen,   \* the account-select modal is visible
  storage,     \* localStorage: chatTabs and activeTabId
  elems,       \* the message elements addMessage created, by element id
  shown,       \* the tab whose terminal sits in #terminal-container
  termVisible, \* #terminal-wrapper is displayed
  sendBtnShown,\* #send-btn is displayed (and #stop-btn is not)
  hist,        \* restoreTabs' history loop: next index and the tab being loaded
  nextTabId,   \* the next id crypto.randomUUID returns
  pills,       \* #attachment-list: the tab its remove buttons hold, and the
               \* attachment ids it shows
  nextAtt,     \* the next attachment id crypto.randomUUID returns
  calls,       \* the sendMessage invocations suspended at an await
  responses,   \* the bridge's side of the sendMessage calls it was given
  nextConv,    \* the next conversation id the bridge creates
  sends,       \* sendMessage invocations so far
  stops,       \* the conversation ids of the stopResponse calls the bridge
               \* has not answered yet, oldest first
  edits,
  lastOp,      \* the handler branch that ran last (history variable)
  cliConfig,   \* zencli: the CLIUI's config in memory
  cliFile,     \* zencli: ~/.zencli/config.json
  cliCmd,      \* zencli: where the running command stands, and what it printed
  cfgCalls,    \* zencli: the calls of ConfigStorage's account functions and of
               \* CLIUI.updateConfig, each where it stands, in call order
  logins       \* the runs of the #login-btn handler on this page

vars == <<pc, tabs, heap, activeTabId, accounts, selectedAccountForNewTab,
          selectedTabType, modalOpen, storage, elems, shown, termVisible,
          sendBtnShown, hist, nextTabId, pills, nextAtt, calls, responses,
          nextConv, sends, stops, edits, lastOp, cliConfig, cliFile, cliCmd,
          cfgCalls, logins>>

\* ---------------------------------------------------------------- helpers
Range(f) == {f[x] : x \in DOMAIN f}

SeqOf(s, n) == [i \in 1..n |-> s[i]]

RECURSIVE IndexOf(_, _, _)
\* tabs.findIndex: the first index i >= from with s[i] = x, 0 when there is none
IndexOf(s, x, from) ==
  IF from > Len(s) THEN 0
  ELSE IF s[from] = x THEN from ELSE IndexOf(s, x, from + 1)

RemoveAt(s, i) == [j \in 1..(Len(s) - 1) |-> IF j < i THEN s[j] ELSE s[j + 1]]

Max(a, b) == IF a >= b THEN a ELSE b

\* the renderer's module-level state and DOM, as one value that the
\* functions below take and return.  The value of the #input textarea is not
\* part of it: the user edits it at will, so it is an input of the handlers
\* that read it, and the handlers' writes to it (input.value = "") are left
\* out
St == [tabs |-> tabs, heap |-> heap, activeTabId |-> activeTabId,
       storage |-> storage, elems |-> elems, shown |-> shown,
       termVisible |-> termVisible, sendBtnShown |-> sendBtnShown,
       nextTabId |-> nextTabId, pills |-> pills, nextAtt |-> nextAtt]

\* localStorage without the two keys.  present: chatTabs is set; parses:
\* JSON.parse accepts it; tabs: the array it parses to; active: activeTabId
NoStorage == [present |-> FALSE, parses |-> TRUE, tabs |-> <<>>, active |-> Null]

\* a field an object does not have
Undefined == "undefined"

\* a null in the stored array
NullEntry == [null |-> TRUE]

\* the empty (hidden) #attachment-list
NoPills == [tab |-> Null, ids |-> <<>>]

\* ---------------------------------------------------------- TAB MANAGEMENT
\* a wrong canCreateNewTab, to validate C1: one tab too many
canCreateNewTab_OneMore(s) == Len(s.tabs) <= MAX_TABS

canCreateNewTab(s) == Len(s.tabs) < MAX_TABS

\* the id of the active tab when it is in the tabs array, Null otherwise
getActiveTab(s) ==
  IF IndexOf(s.tabs, s.activeTabId, 1) # 0 THEN s.activeTabId ELSE Null

\* initializeTerminal(tab): the container is emptied and holds the new
\* terminal; the terminal's inputBuffer starts empty
initializeTerminal(s, id) ==
  [s EXCEPT !.heap[id].terminal = TRUE, !.heap[id].buf = <<>>, !.shown = id]

\* renderActiveTab: shows the terminal for a cli tab (creating it when the tab
\* has none) and the message list for a gui tab
renderActiveTab(s) ==
  LET id == getActiveTab(s) IN
  IF id = Null THEN s
  ELSE IF s.heap[id].tabType = "cli"
       THEN LET v == [s EXCEPT !.termVisible = TRUE] IN
            IF ~s.heap[id].terminal THEN initializeTerminal(v, id) ELSE v
       ELSE [s EXCEPT !.termVisible = FALSE]

\* the durable fields of one tab
Snapshot(t) ==
  [id |-> t.id, name |-> t.name, accountId |-> t.accountId,
   conversationId |-> t.conversationId,
   parentMessageUuid |-> t.parentMessageUuid, model |-> t.model,
   tabType |-> t.tabType]

\* saveTabs: the whole snapshot, and activeTabId || ""
saveTabs(s) ==
  [s EXCEPT !.storage =
     [present |-> TRUE, parses |-> TRUE,
      tabs |-> [i \in 1..Len(s.tabs) |-> Snapshot(s.heap[s.tabs[i]])],
      active |-> s.activeTabId]]

DefaultName(tabType, n) == IF tabType = "cli" THEN <<"CLI", n>> ELSE <<"Chat", n>>

NewTab(id, accountId, name, tabType) ==
  [id |-> id, name |-> name, accountId |-> accountId, conversationId |-> Null,
   parentMessageUuid |-> NoUuid, model |-> DefaultModel, messages |-> <<>>,
   isLoading |-> FALSE, streamingElement |-> Null, pendingAttachments |-> <<>>,
   tabType |-> tabType, terminal |-> FALSE, buf |-> <<>>]

\* createTab(accountId, name?, tabType): name = NoName stands for an absent name
createTab(s, accountId, name, tabType) ==
  LET tabId == s.nextTabId
      tabName == IF name # NoName THEN name
                 ELSE DefaultName(tabType, Len(s.tabs) + 1)
      s1 == [s EXCEPT !.nextTabId = tabId + 1,
                      !.heap = [i \in DOMAIN s.heap \cup {tabId} |->
                                  IF i = tabId
                                  THEN NewTab(tabId, accountId, tabName, tabType)
                                  ELSE s.heap[i]],
                      !.tabs = Append(s.tabs, tabId),
                      !.activeTabId = tabId]
      s2 == IF tabType = "cli" THEN initializeTerminal(s1, tabId) ELSE s1
  IN saveTabs(renderActiveTab(s2))

\* a wrong switchTab, to validate C26: the switch is not persisted
switchTab_NoSave(s, tabId) ==
  IF s.activeTabId = tabId THEN s
  ELSE IF IndexOf(s.tabs, tabId, 1) = 0 THEN s
  ELSE renderActiveTab([s EXCEPT !.activeTabId = tabId])

\* switchTab(tabId)
switchTab(s, tabId) ==
  IF s.activeTabId = tabId THEN s
  ELSE IF IndexOf(s.tabs, tabId, 1) = 0 THEN s
  ELSE saveTabs(renderActiveTab([s EXCEPT !.activeTabId = tabId]))

\* a wrong closeTab, to validate C3: the active pointer stays on the closed tab
closeTab_KeepActive(s, tabId) ==
  IF Len(s.tabs) = 1 THEN s
  ELSE LET tabIndex == IndexOf(s.tabs, tabId, 1) IN
       IF tabIndex = 0 THEN s
       ELSE saveTabs(renderActiveTab([s EXCEPT !.tabs = RemoveAt(s.tabs, tabIndex)]))

\* a wrong closeTab, to validate C4: the sole tab can be closed
closeTab_NoSoleGuard(s, tabId) ==
  LET tabIndex == IndexOf(s.tabs, tabId, 1) IN
  IF tabIndex = 0 THEN s
  ELSE LET rest == RemoveAt(s.tabs, tabIndex)
           s1 == [s EXCEPT !.tabs = rest,
                           !.activeTabId =
                             IF s.activeTabId # tabId THEN s.activeTabId
                             ELSE IF rest = <<>> THEN Null
                             ELSE rest[Max(1, tabIndex - 1)]]
       IN saveTabs(renderActiveTab(s1))

\* a wrong closeTab, to validate C5: the first tab becomes active
closeTab_ActivateFirst(s, tabId) ==
  IF Len(s.tabs) = 1 THEN s
  ELSE LET tabIndex == IndexOf(s.tabs, tabId, 1) IN
       IF tabIndex = 0 THEN s
       ELSE LET rest == RemoveAt(s.tabs, tabIndex)
                s1 == [s EXCEPT !.tabs = rest,
                                !.activeTabId =
                                  IF s.activeTabId = tabId
                                  THEN rest[1]
                                  ELSE s.activeTabId]
            IN saveTabs(renderActiveTab(s1))

\* a wrong closeTab, to validate C30: a neighbour of the closed tab becomes
\* active whichever tab was
closeTab_AlwaysReactivate(s, tabId) ==
  IF Len(s.tabs) = 1 THEN s
  ELSE LET tabIndex == IndexOf(s.tabs, tabId, 1) IN
       IF tabIndex = 0 THEN s
       ELSE LET rest == RemoveAt(s.tabs, tabIndex)
                s1 == [s EXCEPT !.tabs = rest,
                                !.activeTabId = rest[Max(1, tabIndex - 1)]]
            IN saveTabs(renderActiveTab(s1))

\* closeTab(tabId)
closeTab(s, tabId) ==
  IF Len(s.tabs) = 1 THEN s
  ELSE LET tabIndex == IndexOf(s.tabs, tabId, 1) IN
       IF tabIndex = 0 THEN s
       ELSE LET rest == RemoveAt(s.tabs, tabIndex)
                s1 == [s EXCEPT !.tabs = rest,
                                !.activeTabId =
                                  IF s.activeTabId = tabId
                                  THEN rest[Max(1, tabIndex - 1)]
                                  ELSE s.activeTabId]
            IN saveTabs(renderActiveTab(s1))

\* updateTabName(tabId, name)
updateTabName(s, tabId, name) ==
  IF IndexOf(s.tabs, tabId, 1) = 0 THEN s
  ELSE saveTabs([s EXCEPT !.heap[tabId].name = name])

\* ---------------------------------------------------------------- MESSAGES
EscapeChar(c) ==
  CASE c = "&" -> "&amp;"
    [] c = "<" -> "&lt;"
    [] c = ">" -> "&gt;"
    [] c = "\"" -> "&quot;"
    [] OTHER -> c

escapeHtml(text) == [i \in 1..Len(text) |-> EscapeChar(text[i])]

\* parseMarkdown(t): '' for an empty text, else the text as marked renders it
parseMarkdown(text) == IF text = <<>> THEN <<>> ELSE <<"<p>">> \o text \o <<"</p>">>

IsSpace(c) == c = " "

RECURSIVE TrimLeft(_)
TrimLeft(text) ==
  IF text # <<>> /\ IsSpace(Head(text)) THEN TrimLeft(Tail(text)) ELSE text

RECURSIVE TrimRight(_)
TrimRight(text) ==
  IF text # <<>> /\ IsSpace(text[Len(text)])
  THEN TrimRight(SeqOf(text, Len(text) - 1)) ELSE text

\* String.prototype.trim
Trim(text) == TrimRight(TrimLeft(text))

\* document.createElement: the element addMessage is about to create
NewElem(s) == CHOOSE e \in 1..(Cardinality(DOMAIN s.elems) + 1) : e \notin DOMAIN s.elems

\* a wrong addMessage, to validate C27: the element goes in front of the
\* tab's messages
addMessage_Prepend(s, role, content, raw, by) ==
  LET el == NewElem(s)
      html == IF role = "user" THEN escapeHtml(content)
              ELSE IF raw THEN content ELSE parseMarkdown(content)
      tab == getActiveTab(s)
      s1 == [s EXCEPT !.elems = [e \in DOMAIN s.elems \cup {el} |->
                                   IF e = el
                                   THEN [role |-> role, content |-> html, by |-> by]
                                   ELSE s.elems[e]]]
  IN IF tab = Null THEN s1
     ELSE [s1 EXCEPT !.heap[tab].messages = <<el>> \o @]

\* addMessage(role, content, raw): the element goes to the ACTIVE tab's
\* messages (and to the DOM); by: the sendMessage invocation that made it
addMessage(s, role, content, raw, by) ==
  LET el == NewElem(s)
      html == IF role = "user" THEN escapeHtml(content)
              ELSE IF raw THEN content ELSE parseMarkdown(content)
      tab == getActiveTab(s)
      s1 == [s EXCEPT !.elems = [e \in DOMAIN s.elems \cup {el} |->
                                   IF e = el
                                   THEN [role |-> role, content |-> html, by |-> by]
                                   ELSE s.elems[e]]]
  IN IF tab = Null THEN s1
     ELSE [s1 EXCEPT !.heap[tab].messages = Append(@, el)]

\* ------------------------------------------------------ CONVERSATION HISTORY
\* the conversations the bridge can return for loadConversation
HistoryPayloads ==
  { [name |-> NoName,
     chat_messages |->
       << [uuid |-> <<"hist", 2>>, sender |-> "assistant", text |-> <<>>,
           content |-> << [type |-> "text", text |-> <<"o", "k">>] >>,
           created_at |-> 2],
          [uuid |-> <<"hist", 1>>, sender |-> "human", text |-> <<"a", "<">>,
           content |-> <<>>, created_at |-> 1] >>],
    [name |-> CustomName, chat_messages |-> <<>>] }

\* more conversations: three messages out of order, and a message without
\* text between two with text
HistoryInputs ==
  HistoryPayloads \cup
  { [name |-> NoName,
     chat_messages |->
       << [uuid |-> <<"hist", 3>>, sender |-> "assistant", text |-> <<"c">>,
           content |-> <<>>, created_at |-> 3],
          [uuid |-> <<"hist", 1>>, sender |-> "human", text |-> <<"a">>,
           content |-> <<>>, created_at |-> 1],
          [uuid |-> <<"hist", 2>>, sender |-> "assistant", text |-> <<>>,
           content |-> << [type |-> "text", text |-> <<"b">>] >>,
           created_at |-> 2] >>],
    [name |-> NoName,
     chat_messages |->
       << [uuid |-> <<"hist", 2>>, sender |-> "assistant", text |-> <<>>,
           content |-> << [type |-> "image", text |-> <<>>] >>, created_at |-> 2],
          [uuid |-> <<"hist", 1>>, sender |-> "human", text |-> <<"a">>,
           content |-> <<>>, created_at |-> 1] >>] }

RECURSIVE InsertByTime(_, _)
InsertByTime(sorted, m) ==
  IF sorted = <<>> THEN <<m>>
  ELSE IF m.created_at < Head(sorted).created_at THEN <<m>> \o sorted
  ELSE <<Head(sorted)>> \o InsertByTime(Tail(sorted), m)

RECURSIVE SortByTime(_)
\* [...messages].sort by created_at, oldest first (stable)
SortByTime(ms) ==
  IF ms = <<>> THEN <<>>
  ELSE InsertByTime(SortByTime(SeqOf(ms, Len(ms) - 1)), ms[Len(ms)])

RECURSIVE JoinText(_)
\* the text blocks of msg.content joined by "\n"
JoinText(blocks) ==
  IF blocks = <<>> THEN <<>>
  ELSE LET rest == JoinText(Tail(blocks))
           b == Head(blocks)
       IN IF b.type = "text" /\ b.text # <<>>
          THEN IF rest = <<>> THEN b.text ELSE b.text \o <<"\n">> \o rest
          ELSE rest

MessageText(msg) == IF msg.text # <<>> THEN msg.text ELSE JoinText(msg.content)

RECURSIVE RenderHistory(_, _)
\* the loop over sortedMessages
RenderHistory(s, ms) ==
  IF ms = <<>> THEN s
  ELSE LET msg == Head(ms)
           text == MessageText(msg)
           s1 == IF text = <<>> THEN s
                 ELSE IF msg.sender = "human"
                      THEN addMessage(s, "user", text, FALSE, 0)
                 ELSE IF msg.sender = "assistant"
                      THEN addMessage(s, "assistant", text, FALSE, 0)
                 ELSE s
       IN RenderHistory(s1, Tail(ms))

\* loadConversationHistory(tab) from the return of loadConversation on
LoadedHistory(s, tab, data) ==
  LET sortedMessages == SortByTime(data.chat_messages)
      s1 == RenderHistory(s, sortedMessages)
      s2 == IF Len(sortedMessages) > 0
            THEN [s1 EXCEPT !.heap[tab].parentMessageUuid =
                              sortedMessages[Len(sortedMessages)].uuid]
            ELSE s1
  IN IF data.name # NoName THEN updateTabName(s2, tab, data.name) ELSE s2

\* the test restoreTabs and loadConversationHistory make before loading
NeedsHistory(s, id) ==
  s.heap[id].conversationId # Null /\ Len(s.heap[id].messages) = 0

RECURSIVE NextToLoad(_, _)
\* the for-of loop over tabs from index idx: the index of the next tab to load
NextToLoad(s, idx) ==
  IF idx > Len(s.tabs) THEN 0
  ELSE IF NeedsHistory(s, s.tabs[idx]) THEN idx ELSE NextToLoad(s, idx + 1)

NoHist == [idx |-> 0, tab |-> Null]

\* restoreTabs' loop up to its next await, or to its end and from there to
\* the end of init (setupEventListeners)
HistoryLoop(s, idx) ==
  LET i == NextToLoad(s, idx) IN
  IF i = 0 THEN [s |-> renderActiveTab(s), pc |-> "ready", hist |-> NoHist]
  ELSE [s |-> s, pc |-> "history", hist |-> [idx |-> i + 1, tab |-> s.tabs[i]]]

\* -------------------------------------------------------------- PERSISTENCE
\* a wrong RestoredTab, to validate C18: every restored tab is a gui tab
RestoredTab_AlwaysGui(tabData) ==
  [id |-> tabData.id, name |-> tabData.name, accountId |-> tabData.accountId,
   conversationId |-> tabData.conversationId,
   parentMessageUuid |-> tabData.parentMessageUuid, model |-> tabData.model,
   messages |-> <<>>, isLoading |-> FALSE, streamingElement |-> Null,
   pendingAttachments |-> <<>>, tabType |-> "gui",
   terminal |-> FALSE, buf |-> <<>>]

\* the ChatTab restoreTabs builds of a stored object (one without tabType or
\* displayMode becomes a gui tab)
RestoredTab(tabData) ==
  [id |-> tabData.id, name |-> tabData.name, accountId |-> tabData.accountId,
   conversationId |-> tabData.conversationId,
   parentMessageUuid |-> tabData.parentMessageUuid, model |-> tabData.model,
   messages |-> <<>>, isLoading |-> FALSE, streamingElement |-> Null,
   pendingAttachments |-> <<>>,
   tabType |-> IF tabData.tabType # Undefined THEN tabData.tabType ELSE "gui",
   terminal |-> FALSE, buf |-> <<>>]

RECURSIVE RestoreLoop(_, _, _)
\* restoreTabs' for-of loop from the i-th stored entry on: the tabs it pushes
\* after acc, and whether it threw (reading a field of null)
RestoreLoop(parsed, i, acc) ==
  IF i > Len(parsed) THEN [pushed |-> acc, threw |-> FALSE]
  ELSE IF parsed[i] = NullEntry THEN [pushed |-> acc, threw |-> TRUE]
  ELSE RestoreLoop(parsed, i + 1, Append(acc, RestoredTab(parsed[i])))

\* restoreTabs up to "If no tabs, create default tab"
RestoreParsed(s) ==
  IF ~s.storage.present \/ ~s.storage.parses THEN s
  ELSE LET loop == RestoreLoop(s.storage.tabs, 1, <<>>)
           ids == [i \in 1..Len(loop.pushed) |-> loop.pushed[i].id]
           all == s.tabs \o ids
           s1 == [s EXCEPT
                    !.tabs = all,
                    !.heap = [i \in DOMAIN s.heap \cup Range(ids) |->
                                IF i \in Range(ids)
                                THEN loop.pushed[IndexOf(ids, i, 1)]
                                ELSE s.heap[i]]]
           savedActiveTabId == s.storage.active
       IN IF loop.threw THEN s1
          ELSE IF savedActiveTabId # Null /\ IndexOf(all, savedActiveTabId, 1) # 0
          THEN [s1 EXCEPT !.activeTabId = savedActiveTabId]
          ELSE IF Len(all) > 0 THEN [s1 EXCEPT !.activeTabId = all[1]]
          ELSE s1

\* -------------------------------------------------------------- ATTACHMENTS
\* the ids of a list of attachments, in order
AttachmentIds(pending) == [i \in 1..Len(pending) |-> pending[i].id]

\* renderAttachmentList: the list shows the active tab's pending attachments,
\* and its remove buttons hold that tab.  With nothing pending the container
\* is hidden with its old buttons in it, which nobody can click any more: a
\* hidden list is kept as the empty one
renderAttachmentList(s) ==
  LET tab == getActiveTab(s) IN
  IF tab = Null THEN s
  ELSE IF Len(s.heap[tab].pendingAttachments) = 0
  THEN [s EXCEPT !.pills = NoPills]
  ELSE [s EXCEPT !.pills = [tab |-> tab,
                            ids |-> AttachmentIds(s.heap[tab].pendingAttachments)]]

\* the click handler of an .attachment-remove button of the list
removeAttachment(s, id) ==
  LET tab == s.pills.tab
      pending == s.heap[tab].pendingAttachments
  IN renderAttachmentList(
       [s EXCEPT !.heap[tab].pendingAttachments =
                   SelectSeq(pending, LAMBDA a : a.id # id)])

\* what handleFileSelection makes of the n descriptors uploadAttachments
\* returned: each with an id of its own, the first one being base
Normalized(base, n) ==
  [i \in 1..n |-> [id |-> base + i - 1, document_id |-> <<"doc", base + i - 1>>]]

\* a wrong Uploaded, to validate C24: the results go to the tab that is active
\* when the upload returns
Uploaded_ToActive(s, tab, base, n) ==
  IF getActiveTab(s) = Null THEN s
  ELSE renderAttachmentList(
         [s EXCEPT !.heap[getActiveTab(s)].pendingAttachments =
                     @ \o Normalized(base, n)])

\* handleFileSelection after the await of uploadAttachments
Uploaded(s, tab, base, n) ==
  renderAttachmentList(
    [s EXCEPT !.heap[tab].pendingAttachments = @ \o Normalized(base, n)])

\* ---------------------------------------------------------------- MESSAGING
\* what the bridge's message-stream events carry as fullText
StreamTexts == {<<"H">>, <<"H", "e">>}

\* the markup sendMessage's catch writes into the streaming element
ErrorMarker == <<"<span>", "Error", "</span>">>

\* a wrong StoreConversation, to validate C9: the parent uuid is not stored
StoreConversation_NoParent(s, tab, conv) ==
  [s EXCEPT !.heap[tab].conversationId = conv]

\* sendMessage after the await of createConversation: the result is stored
\* in the tab the invocation started with
StoreConversation(s, tab, conv) ==
  [s EXCEPT !.heap[tab].conversationId = conv,
            !.heap[tab].parentMessageUuid = <<"root", conv>>]

\* a wrong SendBody, to validate C11: the list for the bridge is read after
\* pendingAttachments was cleared
SendBody_ReadAfterClear(s, tab, message, k) ==
  LET s1 == addMessage(s, "user", message, FALSE, k)
      s2 == renderAttachmentList(
              [s1 EXCEPT !.heap[tab].pendingAttachments = <<>>])
      pending == s2.heap[tab].pendingAttachments
      attachments == [i \in 1..Len(pending) |-> pending[i].document_id]
      assistantMsg == NewElem(s2)
      s3 == addMessage(s2, "assistant", <<>>, TRUE, k)
      s4 == [s3 EXCEPT !.heap[tab].streamingElement = assistantMsg,
                       !.heap[tab].isLoading = TRUE,
                       !.sendBtnShown = FALSE]
      conv == s4.heap[tab].conversationId
      parent == s4.heap[tab].parentMessageUuid
  IN [s |-> s4,
      resp |-> [call |-> k, tab |-> tab, conv |-> conv, message |-> message,
                parent |-> IF parent # NoUuid THEN parent ELSE <<"conv", conv>>,
                attachments |-> attachments]]

\* sendMessage from "Add user message" to the await of the bridge's
\* sendMessage: the state, and the call the bridge receives (with the tab it
\* is for)
SendBody(s, tab, message, k) ==
  LET s1 == addMessage(s, "user", message, FALSE, k)
      pending == s1.heap[tab].pendingAttachments
      attachments == [i \in 1..Len(pending) |-> pending[i].document_id]
      s2 == renderAttachmentList(
              [s1 EXCEPT !.heap[tab].pendingAttachments = <<>>])
      assistantMsg == NewElem(s2)
      s3 == addMessage(s2, "assistant", <<>>, TRUE, k)
      s4 == [s3 EXCEPT !.heap[tab].streamingElement = assistantMsg,
                       !.heap[tab].isLoading = TRUE,
                       !.sendBtnShown = FALSE]
      conv == s4.heap[tab].conversationId
      parent == s4.heap[tab].parentMessageUuid
  IN [s |-> s4,
      resp |-> [call |-> k, tab |-> tab, conv |-> conv, message |-> message,
                parent |-> IF parent # NoUuid THEN parent ELSE <<"conv", conv>>,
                attachments |-> attachments]]

\* sendMessage() up to its first await, with text in #input; k numbers the
\* invocation.  call: the suspended invocation (none when it returned),
\* resp: the call the bridge received
sendMessage(s, text, k) ==
  LET tab == getActiveTab(s)
      message == Trim(text)
  IN IF tab = Null \/ message = <<>>
     THEN [s |-> s, call |-> {}, resp |-> {}]
     ELSE IF s.heap[tab].conversationId = Null
     THEN [s |-> s,
           call |-> {[id |-> k, tab |-> tab, message |-> message,
                      at |-> "createConversation"]},
           resp |-> {}]
     ELSE LET b == SendBody(s, tab, message, k) IN
          [s |-> b.s,
           call |-> {[id |-> k, tab |-> tab, message |-> message,
                      at |-> "sendMessage"]},
           resp |-> {b.resp}]

\* handleCLIMessage(tab, message) up to the await inside sendMessage
handleCLIMessage(s, tab, message, k) ==
  IF ~s.heap[tab].terminal THEN [s |-> s, call |-> {}, resp |-> {}]
  ELSE sendMessage(addMessage(s, "user", message, FALSE, k), message, k)

RECURSIVE FindByConversation(_, _, _)
\* tabs.find((t) => t.conversationId === conv): the first open tab, or Null
FindByConversation(s, conv, i) ==
  IF i > Len(s.tabs) THEN Null
  ELSE IF s.heap[s.tabs[i]].conversationId = conv THEN s.tabs[i]
  ELSE FindByConversation(s, conv, i + 1)

\* a wrong onMessageStream, to validate C12: the event's text is appended to
\* what the element holds
onMessageStream_Append(s, conv, fullText) ==
  LET tab == FindByConversation(s, conv, 1) IN
  IF tab # Null /\ s.heap[tab].streamingElement # Null
  THEN [s EXCEPT !.elems[s.heap[tab].streamingElement].content =
                   @ \o parseMarkdown(fullText)]
  ELSE s

\* the onMessageStream callback
onMessageStream(s, conv, fullText) ==
  LET tab == FindByConversation(s, conv, 1) IN
  IF tab # Null /\ s.heap[tab].streamingElement # Null
  THEN [s EXCEPT !.elems[s.heap[tab].streamingElement].content =
                   parseMarkdown(fullText)]
  ELSE s

\* a wrong onMessageComplete, to validate C13: the snapshot is not rewritten
onMessageComplete_NoSave(s, conv, messageUuid) ==
  LET tab == FindByConversation(s, conv, 1) IN
  IF tab # Null
  THEN [s EXCEPT !.heap[tab].parentMessageUuid = messageUuid,
                 !.heap[tab].isLoading = FALSE,
                 !.heap[tab].streamingElement = Null,
                 !.sendBtnShown = TRUE]
  ELSE s

\* the onMessageComplete callback
onMessageComplete(s, conv, messageUuid) ==
  LET tab == FindByConversation(s, conv, 1) IN
  IF tab # Null
  THEN saveTabs([s EXCEPT !.heap[tab].parentMessageUuid = messageUuid,
                          !.heap[tab].isLoading = FALSE,
                          !.heap[tab].streamingElement = Null,
                          !.sendBtnShown = TRUE])
  ELSE s

\* a wrong stopStreaming, to validate C16: the tab stops loading at once
stopStreaming_ClearsLoading(s) ==
  LET tab == getActiveTab(s) IN
  IF tab = Null \/ s.heap[tab].conversationId = Null
  THEN [s |-> s, stop |-> <<>>]
  ELSE [s |-> [s EXCEPT !.heap[tab].isLoading = FALSE],
        stop |-> <<s.heap[tab].conversationId>>]

\* stopStreaming() up to its await; stop: the conversation id stopResponse is
\* called with (none when the function returned before)
stopStreaming(s) ==
  LET tab == getActiveTab(s) IN
  IF tab = Null \/ s.heap[tab].conversationId = Null
  THEN [s |-> s, stop |-> <<>>]
  ELSE [s |-> s, stop |-> <<s.heap[tab].conversationId>>]

\* a wrong catch, to validate C29: the tab stays loading
SendFailed_StaysLoading(s, tab) ==
  LET el == s.heap[tab].streamingElement
      s1 == IF el # Null THEN [s EXCEPT !.elems[el].content = ErrorMarker] ELSE s
  IN [s1 EXCEPT !.sendBtnShown = TRUE]

\* the catch of sendMessage's await of the bridge
SendFailed(s, tab) ==
  LET el == s.heap[tab].streamingElement
      s1 == IF el # Null THEN [s EXCEPT !.elems[el].content = ErrorMarker] ELSE s
  IN [s1 EXCEPT !.heap[tab].isLoading = FALSE, !.sendBtnShown = TRUE]

\* ------------------------------------------------------------------- ZENCLI
\* the modes of CLIConfig
ValidModes == {"interactive", "auto", "debug"}

\* what the user can give the mode command
ModeInputs == ValidModes \cup {"Auto", ""}

\* a wrong IsValidMode, to validate C25: every value is taken
IsValidMode_Any(modeType) == modeType = modeType

\* the test of the mode command
IsValidMode(modeType) == modeType \in ValidModes

\* no config file, or one that cannot be read or parsed.  An account list
\* that is absent and one that is empty are one value: every reader takes
\* config.claudeAccounts || []
NoFile == [readable |-> FALSE, mode |-> Undefined, model |-> Undefined,
           provider |-> Undefined, baseUrl |-> Undefined,
           claudeAccounts |-> <<>>, activeClaudeAccountId |-> Undefined]

\* ConfigStorage.loadConfig: the stored config, {} when the file cannot be read
loadConfig(file) == IF file.readable THEN file ELSE [NoFile EXCEPT !.readable = TRUE]

\* CLIUI.updateConfig(newConfig), the assignment to this.config
updateConfig(config, newConfig) ==
  [k \in DOMAIN config |-> IF k \in DOMAIN newConfig THEN newConfig[k] ELSE config[k]]

\* ConfigStorage.updateConfig's newConfig: the stored config with the model,
\* the provider, the base url and the mode the CLIUI holds
MergedConfig(currentConfig, config) ==
  [currentConfig EXCEPT !.model = config.model, !.provider = config.provider,
                        !.baseUrl = config.baseUrl, !.mode = config.mode]

\* the providers of changeProvider, and the models of changeModel
Providers == {"LiteLLM", "Gemini"}

CliModels == {"m1", "m2"}

\* the config the CLIUI is constructed with
DefaultConfig ==
  [mode |-> "interactive", model |-> "m1", provider |-> "LiteLLM",
   baseUrl |-> Undefined]

\* a ClaudeAccount; lastUsed is 0 until updateAccountLastUsed stamps it
ClaudeAccount(accountId, lastUsed) ==
  [accountId |-> accountId, lastUsed |-> lastUsed]

\* accounts.findIndex((acc) => acc.accountId === accountId), counted from 1;
\* 0 for -1
findIndex(list, accountId) ==
  IF \E i \in 1..Len(list) : list[i].accountId = accountId
  THEN CHOOSE i \in 1..Len(list) :
         /\ list[i].accountId = accountId
         /\ \A j \in 1..(i - 1) : list[j].accountId # accountId
  ELSE 0

\* a wrong getClaudeAccount, to validate C40: an account is always found
getClaudeAccount_Any(config, accountId) == <<ClaudeAccount(accountId, 0)>>

\* getClaudeAccount over the config it loaded: <<account>>, or <<>> for null
getClaudeAccount(config, accountId) ==
  LET list == config.claudeAccounts
      i == findIndex(list, accountId)
  IN IF i = 0 THEN <<>> ELSE <<list[i]>>

\* saveClaudeAccount over the config it loaded: the partial config it hands
\* to updateConfig
saveClaudeAccount(config, account) ==
  LET list == config.claudeAccounts
      existingIndex == findIndex(list, account.accountId)
  IN [claudeAccounts |->
        IF existingIndex > 0 THEN [list EXCEPT ![existingIndex] = account]
        ELSE Append(list, account)]

\* removeClaudeAccount over the config it loaded: the partial config it hands
\* to updateConfig
removeClaudeAccount(config, accountId) ==
  LET filteredAccounts ==
        SelectSeq(config.claudeAccounts, LAMBDA acc : acc.accountId # accountId)
  IN IF config.activeClaudeAccountId = accountId
     THEN [claudeAccounts |-> filteredAccounts,
           activeClaudeAccountId |-> Undefined]
     ELSE [claudeAccounts |-> filteredAccounts]

\* the Error setActiveClaudeAccount and updateAccountLastUsed throw
NotFound(accountId) == <<"Account", accountId, "not found">>

\* a call of op that stands at the await named at.  account is the account
\* the call holds, partialConfig what it gives ConfigStorage.updateConfig,
\* newConfig what updateConfig gives saveConfig; error is what the call threw,
\* written whether its writeFile succeeded, awaited whether the command that
\* made the call waits for it
NewCall(op, at, accountId, account, awaited) ==
  [op |-> op, at |-> at, accountId |-> accountId, account |-> account,
   partialConfig |-> <<>>, newConfig |-> NoFile, error |-> <<>>,
   written |-> FALSE, awaited |-> awaited]

\* no command running; out is what the last one printed
Idle(out) == [at |-> "idle", newConfig |-> NoFile, out |-> out]

\* ------------------------------------------------------------------ actions
\* The new values of the renderer state.  ChatTab objects and elements that
\* nothing refers to any more are dropped: refs are the tabs that suspended
\* handlers hold.
Commit(s, refs) ==
  LET keep == (Range(s.tabs) \cup refs \cup {s.shown, s.pills.tab})
                \cap DOMAIN s.heap
      h == [i \in keep |-> s.heap[i]]
      used == UNION {Range(h[i].messages) \cup {h[i].streamingElement} : i \in keep}
  IN /\ tabs' = s.tabs
     /\ heap' = h
     /\ activeTabId' = s.activeTabId
     /\ storage' = s.storage
     /\ elems' = [e \in used \cap DOMAIN s.elems |-> s.elems[e]]
     /\ shown' = s.shown
     /\ termVisible' = s.termVisible
     /\ sendBtnShown' = s.sendBtnShown
     /\ nextTabId' = s.nextTabId
     /\ pills' = s.pills
     /\ nextAtt' = s.nextAtt

CallTabs(cs) == {c.tab : c \in cs}

\* the handler outcomes lastOp keeps: the ones that leave no other trace
Traced == {"newTab.full", "createTab.call", "switchTab.call", "closeTab.call",
           "updateTabName.call"}

NoOp == [op |-> "", arg |-> 0]

Op(name, arg) == IF name \in Traced THEN [op |-> name, arg |-> arg] ELSE NoOp

Modal == <<selectedAccountForNewTab, selectedTabType, modalOpen>>

Bridge == <<calls, responses, nextConv, sends, stops>>

\* the state of the zencli command-line program, which no handler of the
\* page touches
Cli == <<cliConfig, cliFile, cliCmd, cfgCalls>>

\* the page before init() runs, but for what localStorage holds and the ids
\* that are taken
InitMemory ==
  /\ pc = "start"
  /\ tabs = <<>>
  /\ heap = <<>>
  /\ activeTabId = Null
  /\ accounts = {}
  /\ selectedAccountForNewTab = NoAccount
  /\ selectedTabType = "gui"
  /\ modalOpen = FALSE
  /\ elems = <<>>
  /\ shown = Null
  /\ termVisible = FALSE
  /\ sendBtnShown = TRUE
  /\ hist = NoHist
  /\ pills = NoPills
  /\ nextAtt = 1
  /\ calls = {}
  /\ responses = {}
  /\ nextConv = 1
  /\ logins = 0
  /\ sends = 0
  /\ stops = <<>>
  /\ edits = 0
  /\ lastOp = NoOp

\* zencli is not run
InitCli ==
  /\ cliConfig = DefaultConfig
  /\ cliFile = NoFile
  /\ cliCmd = Idle("")
  /\ cfgCalls = <<>>

\* the first run of the page
Init ==
  /\ InitMemory
  /\ InitCli
  /\ storage = NoStorage
  /\ nextTabId = 1

\* a stored tab object as saveTabs writes it
StoredTab(id) ==
  [id |-> id, name |-> <<"Chat", id>>, accountId |-> "acc1",
   conversationId |-> Null, parentMessageUuid |-> NoUuid, model |-> DefaultModel,
   tabType |-> "gui"]

\* what an entry of a chatTabs array can be: a tab object, a null, an object
\* without accountId, an object without model
StoredEntries ==
  {StoredTab(1), StoredTab(2), NullEntry,
   [StoredTab(3) EXCEPT !.accountId = Undefined],
   [StoredTab(3) EXCEPT !.model = Undefined]}

\* the arrays of up to MaxStored entries, no two objects with the same id
StoredArrays ==
  {a \in UNION {[1..n -> StoredEntries] : n \in 0..MaxStored} :
     \A i, j \in DOMAIN a :
       i = j \/ a[i] = NullEntry \/ a[j] = NullEntry \/ a[i].id # a[j].id}

\* what localStorage can hold when the page starts: nothing, a chatTabs that
\* is no JSON, or an array with an activeTabId
StoredInputs ==
  {NoStorage, [present |-> TRUE, parses |-> FALSE, tabs |-> <<>>, active |-> Null]}
  \cup {[present |-> TRUE, parses |-> TRUE, tabs |-> a, active |-> x] :
          a \in StoredArrays, x \in {Null, 2}}

\* a run of the page over a localStorage that earlier versions, other code
\* or the user left; the ids of the stored tabs are taken
InitRestore ==
  /\ InitMemory
  /\ InitCli
  /\ storage \in StoredInputs
  /\ nextTabId = MaxStored + 1

\* ----------------------------------------------------------------- startup
\* init(): the return of getAuthStatus
GetAuthStatus(isAuth) ==
  /\ pc = "start"
  /\ pc' = IF isAuth THEN "accounts" ELSE "login"
  /\ UNCHANGED <<tabs, heap, activeTabId, accounts, Modal, storage, elems, shown,
                 termVisible, sendBtnShown, hist, nextTabId, pills, nextAtt,
                 Bridge, edits, lastOp, Cli, logins>>

\* loadAccounts: the return of getAccounts, and restoreTabs up to its first
\* await (or to its end, and then setupEventListeners)
GetAccounts(success) ==
  /\ pc = "accounts"
  /\ accounts' = IF success THEN AccountIds ELSE accounts
  /\ LET s1 == RestoreParsed(St) IN
     IF Len(s1.tabs) = 0
     THEN /\ Commit(s1, {})
          /\ pc' = "defaultAccount"
          /\ hist' = NoHist
     ELSE LET r == HistoryLoop(renderActiveTab(s1), 1) IN
          /\ Commit(r.s, {r.hist.tab})
          /\ pc' = r.pc
          /\ hist' = r.hist
  /\ UNCHANGED <<Modal, Bridge, edits, lastOp, Cli, logins>>

\* restoreTabs: the return of getActiveAccount; account = NoAccount when the
\* bridge has none (or fails)
GetActiveAccount(account) ==
  /\ pc = "defaultAccount"
  /\ nextTabId <= MaxTabIds
  /\ IF account # NoAccount
     THEN Commit(createTab(St, account, <<"Chat", 1>>, "gui"), {})
     ELSE Commit(St, {})
  /\ pc' = "ready"
  /\ UNCHANGED <<accounts, Modal, hist, Bridge, edits, lastOp, Cli, logins>>

\* loadConversationHistory: loadConversation returns a conversation
LoadConversationData(data) ==
  /\ pc = "history"
  /\ LET s1 == LoadedHistory(St, hist.tab, data)
         r == HistoryLoop(s1, hist.idx)
     IN /\ Commit(r.s, CallTabs(calls) \cup {r.hist.tab})
        /\ pc' = r.pc
        /\ hist' = r.hist
  /\ UNCHANGED <<accounts, Modal, Bridge, edits, lastOp, Cli, logins>>

\* loadConversationHistory: loadConversation returns nothing, or throws
LoadConversationNone ==
  /\ pc = "history"
  /\ LET r == HistoryLoop(St, hist.idx) IN
     /\ Commit(r.s, CallTabs(calls) \cup {r.hist.tab})
     /\ pc' = r.pc
     /\ hist' = r.hist
  /\ UNCHANGED <<accounts, Modal, Bridge, edits, lastOp, Cli, logins>>

\* location.reload() (logout, add account) or a relaunch of the app: the
\* renderer starts over with what localStorage holds; the sends the old page
\* left with the bridge are not heard of again
Restart ==
  /\ pc # "start"
  /\ pc' = "start"
  /\ tabs' = <<>>
  /\ heap' = <<>>
  /\ activeTabId' = Null
  /\ accounts' = {}
  /\ selectedAccountForNewTab' = NoAccount
  /\ selectedTabType' = "gui"
  /\ modalOpen' = FALSE
  /\ elems' = <<>>
  /\ shown' = Null
  /\ termVisible' = FALSE
  /\ sendBtnShown' = TRUE
  /\ hist' = NoHist
  /\ pills' = NoPills
  /\ calls' = {}
  /\ responses' = {}
  /\ stops' = <<>>
  /\ lastOp' = NoOp
  /\ UNCHANGED Cli
  /\ logins' = 0
  /\ UNCHANGED <<storage, nextTabId, nextAtt, nextConv, sends, edits>>

\* #login-btn click, and the return of login().  setupEventListeners
\* registers the listener and init() calls it after restoreTabs, so the
\* handler runs on a page that has run restoreTabs already.  On success
\* init() runs again, over the tabs array as it is
LoginReturn(success) ==
  /\ pc = "ready"
  /\ calls = {}
  /\ logins < MaxLogins
  /\ logins' = logins + 1
  /\ pc' = IF success THEN "start" ELSE pc
  /\ UNCHANGED <<tabs, heap, activeTabId, accounts, Modal, storage, elems, shown,
                 termVisible, sendBtnShown, hist, nextTabId, pills, nextAtt,
                 Bridge, edits, lastOp, Cli>>

\* #login-btn click on the page init() left at showLoginModal: init returned
\* before setupEventListeners, the button has no listener, login() is not
\* called and nothing changes
LoginBtnClick ==
  /\ pc = "login"
  /\ UNCHANGED vars

\* ------------------------------------------------------------ the tab bar
\* a synchronous handler of the ready page that ends in state s
Handler(s, name, arg) ==
  /\ Commit(s, CallTabs(calls) \cup {hist.tab})
  /\ lastOp' = Op(name, arg)
  /\ UNCHANGED <<Cli, logins>>
  /\ UNCHANGED <<pc, accounts, hist, Bridge>>

\* #new-tab-btn click
NewTabBtnClick ==
  /\ pc = "ready"
  /\ ~modalOpen
  /\ IF canCreateNewTab(St)
     THEN /\ selectedTabType' = "gui"
          /\ selectedAccountForNewTab' = NoAccount
          /\ modalOpen' = TRUE
          /\ Handler(St, "newTab", 0)
     ELSE /\ UNCHANGED Modal
          /\ Handler(St, "newTab.full", 0)
  /\ UNCHANGED edits

\* .tab-type-btn click
TabTypeBtnClick(type) ==
  /\ pc = "ready"
  /\ modalOpen
  /\ selectedTabType' = type
  /\ Handler(St, "tabType", 0)
  /\ UNCHANGED <<selectedAccountForNewTab, modalOpen, edits>>

\* click on an account of the modal's list (renderAccountList)
AccountOptionClick(accountId) ==
  /\ pc = "ready"
  /\ modalOpen
  /\ accountId \in accounts
  /\ selectedAccountForNewTab' = accountId
  /\ Handler(St, "account", 0)
  /\ UNCHANGED <<selectedTabType, modalOpen, edits>>

\* #cancel-new-tab or #account-modal-overlay click: hideAccountSelectModal
CancelNewTab ==
  /\ pc = "ready"
  /\ modalOpen
  /\ modalOpen' = FALSE
  /\ selectedAccountForNewTab' = NoAccount
  /\ Handler(St, "cancel", 0)
  /\ UNCHANGED <<selectedTabType, edits>>

\* #add-account-for-tab click with an account selected
AddAccountForTabClick ==
  /\ pc = "ready"
  /\ modalOpen
  /\ selectedAccountForNewTab # NoAccount
  /\ nextTabId <= MaxTabIds
  /\ Handler(createTab(St, selectedAccountForNewTab, NoName, selectedTabType),
             "createTab", 0)
  /\ modalOpen' = FALSE
  /\ selectedAccountForNewTab' = NoAccount
  /\ UNCHANGED <<selectedTabType, edits>>

\* click on a tab of the tab bar (renderTabs)
TabClick(tabId) ==
  /\ pc \in {"history", "ready"}
  /\ tabId \in Range(tabs)
  /\ Handler(switchTab(St, tabId), "switchTab", tabId)
  /\ UNCHANGED <<Modal, edits>>

\* click on a tab's close button (renderTabs)
TabCloseClick(tabId) ==
  /\ pc \in {"history", "ready"}
  /\ tabId \in Range(tabs)
  /\ Handler(closeTab(St, tabId), "closeTab", tabId)
  /\ UNCHANGED <<Modal, edits>>

\* ------------------------------------------------- name, model and mode
\* what the rename prompt returns: NoName when it is cancelled or blank
PromptNames == {NoName, CustomName}

\* #input-badge click
InputBadgeClick(newName) ==
  /\ pc = "ready"
  /\ edits < MaxEdits
  /\ edits' = edits + 1
  /\ LET tab == getActiveTab(St) IN
     IF tab # Null /\ newName # NoName
     THEN Handler(updateTabName(St, tab, newName), "rename", tab)
     ELSE Handler(St, "rename.none", 0)
  /\ UNCHANGED Modal

\* #model-selector change
ModelSelectorChange(model) ==
  /\ pc = "ready"
  /\ edits < MaxEdits
  /\ edits' = edits + 1
  /\ LET tab == getActiveTab(St) IN
     IF tab # Null
     THEN Handler(saveTabs([St EXCEPT !.heap[tab].model = model]), "model", tab)
     ELSE Handler(St, "model.none", 0)
  /\ UNCHANGED Modal

\* .mode-toggle-btn click
ModeToggleClick(mode) ==
  /\ pc = "ready"
  /\ edits < MaxEdits
  /\ edits' = edits + 1
  /\ LET tab == getActiveTab(St) IN
     IF tab # Null /\ heap[tab].tabType # mode
     THEN Handler(saveTabs(renderActiveTab([St EXCEPT !.heap[tab].tabType = mode])),
                  "mode", tab)
     ELSE Handler(St, "mode.none", 0)
  /\ UNCHANGED Modal

\* ------------------------------------------------------------------ sending
\* a handler that ran sendMessage up to its first await, with outcome r
Sending(r, name) ==
  /\ Commit(r.s, CallTabs(calls \cup r.call) \cup {hist.tab})
  /\ calls' = calls \cup r.call
  /\ responses' = responses \cup r.resp
  /\ sends' = IF r.call # {} THEN sends + 1 ELSE sends
  /\ lastOp' = Op(name, sends + 1)
  /\ UNCHANGED <<Cli, logins>>
  /\ UNCHANGED <<pc, accounts, hist, stops, nextConv, Modal, edits>>

\* keydown Enter (without shift) in #input holding text
InputEnter(text) ==
  /\ pc = "ready"
  /\ sends < MaxSends
  /\ Sending(sendMessage(St, text, sends + 1), "sendMessage")

\* #send-btn click with #input holding text
SendBtnClick(text) ==
  /\ pc = "ready"
  /\ sendBtnShown
  /\ sends < MaxSends
  /\ Sending(sendMessage(St, text, sends + 1), "sendMessage")

\* the keys of the terminal: Enter, backspace, Ctrl+C and the characters
CR == "\r"

DEL == "DEL"

ETX == "ETX"

TermChars == {"a"}

\* the onInput callback of a terminal whose inputBuffer is inputBuffer, given
\* data: the buffer it leaves, and the message it hands to handleCLIMessage
\* (none, or one)
onInput(inputBuffer, data) ==
  CASE data = CR ->
         IF Trim(inputBuffer) # <<>>
         THEN [buf |-> <<>>, submit |-> <<Trim(inputBuffer)>>]
         ELSE [buf |-> inputBuffer, submit |-> <<>>]
    [] data = DEL ->
         [buf |-> IF Len(inputBuffer) > 0
                  THEN SeqOf(inputBuffer, Len(inputBuffer) - 1)
                  ELSE inputBuffer,
          submit |-> <<>>]
    [] data = ETX -> [buf |-> <<>>, submit |-> <<>>]
    [] OTHER -> [buf |-> Append(inputBuffer, data), submit |-> <<>>]

\* the onInput callback initializeTerminal gave the terminal on screen
TerminalInput(data) ==
  /\ pc \in {"history", "ready"}
  /\ termVisible
  /\ shown \in DOMAIN heap
  /\ LET tab == shown
         r == onInput(heap[tab].buf, data)
     IN /\ Len(r.buf) <= MaxBuf
        /\ IF r.submit # <<>>
           THEN /\ sends < MaxSends
                /\ LET h == handleCLIMessage(St, tab, r.submit[1], sends + 1)
                   IN Sending([h EXCEPT !.s.heap[tab].buf = r.buf],
                              "handleCLIMessage")
           ELSE /\ Handler([St EXCEPT !.heap[tab].buf = r.buf], "terminal", 0)
                /\ UNCHANGED <<Modal, edits>>

\* what the keyboard can send a terminal: the three special keys, a letter
\* and a space
TermKeys == {CR, DEL, ETX, "a", " "}

\* --------------------------------------------------------------- stopping
\* #stop-btn click, while the button is visible
StopBtnClick ==
  /\ pc = "ready"
  /\ ~sendBtnShown
  /\ LET r == stopStreaming(St) IN
     /\ Len(stops) + Len(r.stop) <= MaxStops
     /\ Commit(r.s, CallTabs(calls) \cup {hist.tab})
     /\ stops' = stops \o r.stop
  /\ lastOp' = Op("stop", 0)
  /\ UNCHANGED <<Cli, logins>>
  /\ UNCHANGED <<pc, accounts, hist, calls, responses, nextConv, sends, Modal,
                 edits>>

\* stopStreaming resumes and ends: the i-th pending stopResponse returned
StopResponseResolve(i) ==
  /\ i \in DOMAIN stops
  /\ stops' = RemoveAt(stops, i)
  /\ Commit(St, CallTabs(calls) \cup {hist.tab})
  /\ lastOp' = Op("stop.resolve", 0)
  /\ UNCHANGED <<Cli, logins>>
  /\ UNCHANGED <<pc, accounts, hist, calls, responses, nextConv, sends, Modal,
                 edits>>

\* stopStreaming resumes in its catch and ends: the i-th pending stopResponse
\* threw, which is logged
StopResponseReject(i) ==
  /\ i \in DOMAIN stops
  /\ stops' = RemoveAt(stops, i)
  /\ Commit(St, CallTabs(calls) \cup {hist.tab})
  /\ lastOp' = Op("stop.reject", 0)
  /\ UNCHANGED <<Cli, logins>>
  /\ UNCHANGED <<pc, accounts, hist, calls, responses, nextConv, sends, Modal,
                 edits>>

\* -------------------------------------------------------------- attachments
\* change of #file-input with n files selected: handleFileSelection up to
\* its await.  The ids its continuation will draw are base, base + 1, ...
FileInputChange(n) ==
  /\ pc = "ready"
  /\ nextAtt + n <= MaxAttachments + 1
  /\ LET tab == getActiveTab(St)
         c == [id |-> nextAtt, tab |-> tab, message |-> [i \in 1..n |-> "file"],
               at |-> "uploadAttachments"]
         cs == IF n = 0 \/ tab = Null THEN calls ELSE calls \cup {c}
     IN /\ Commit([St EXCEPT !.nextAtt = IF cs = calls THEN @ ELSE @ + n],
                  CallTabs(cs) \cup {hist.tab})
        /\ calls' = cs
  /\ lastOp' = Op("upload", 0)
  /\ UNCHANGED <<Cli, logins>>
  /\ UNCHANGED <<pc, accounts, hist, stops, responses, nextConv, sends, Modal, edits>>

\* handleFileSelection resumes: uploadAttachments returned the descriptors
UploadResolve(c) ==
  /\ c \in calls
  /\ c.at = "uploadAttachments"
  /\ calls' = calls \ {c}
  /\ Commit(Uploaded(St, c.tab, c.id, Len(c.message)),
            CallTabs(calls \ {c}) \cup {hist.tab})
  /\ lastOp' = Op("upload.resolve", c.id)
  /\ UNCHANGED <<Cli, logins>>
  /\ UNCHANGED <<pc, accounts, hist, stops, responses, nextConv, sends, Modal, edits>>

\* handleFileSelection resumes in its catch: only the status line changes
UploadReject(c) ==
  /\ c \in calls
  /\ c.at = "uploadAttachments"
  /\ calls' = calls \ {c}
  /\ Commit(St, CallTabs(calls \ {c}) \cup {hist.tab})
  /\ lastOp' = Op("upload.reject", c.id)
  /\ UNCHANGED <<Cli, logins>>
  /\ UNCHANGED <<pc, accounts, hist, stops, responses, nextConv, sends, Modal, edits>>

\* click on the remove button of the attachment id in #attachment-list
AttachmentRemoveClick(id) ==
  /\ pc = "ready"
  /\ id \in Range(pills.ids)
  /\ Handler(removeAttachment(St, id), "removeAttachment", id)
  /\ UNCHANGED <<Modal, edits>>

\* ------------------------------------------------------- the bridge answers
\* sendMessage resumes: createConversation returned
CreateConversationResolve(c) ==
  /\ c \in calls
  /\ c.at = "createConversation"
  /\ LET s1 == StoreConversation(St, c.tab, nextConv)
         b == SendBody(s1, c.tab, c.message, c.id)
         cs == (calls \ {c}) \cup {[c EXCEPT !.at = "sendMessage"]}
     IN /\ Commit(b.s, CallTabs(cs) \cup {hist.tab})
        /\ calls' = cs
        /\ responses' = responses \cup {b.resp}
  /\ nextConv' = nextConv + 1
  /\ lastOp' = Op("createConversation.resolve", c.id)
  /\ UNCHANGED <<Cli, logins>>
  /\ UNCHANGED <<pc, accounts, hist, stops, sends, Modal, edits>>

\* sendMessage resumes: createConversation threw
CreateConversationReject(c) ==
  /\ c \in calls
  /\ c.at = "createConversation"
  /\ calls' = calls \ {c}
  /\ Commit(St, CallTabs(calls \ {c}) \cup {hist.tab})
  /\ lastOp' = Op("createConversation.reject", c.id)
  /\ UNCHANGED <<Cli, logins>>
  /\ UNCHANGED <<pc, accounts, hist, stops, responses, nextConv, sends, Modal, edits>>

\* sendMessage resumes and ends: the bridge's sendMessage returned
SendMessageResolve(c) ==
  /\ c \in calls
  /\ c.at = "sendMessage"
  /\ calls' = calls \ {c}
  /\ Commit(St, CallTabs(calls \ {c}) \cup {hist.tab})
  /\ lastOp' = Op("sendMessage.resolve", c.id)
  /\ UNCHANGED <<Cli, logins>>
  /\ UNCHANGED <<pc, accounts, hist, stops, responses, nextConv, sends, Modal, edits>>

\* sendMessage resumes in its catch: the bridge's sendMessage threw, and the
\* bridge sends no event for that message any more
SendMessageReject(c) ==
  /\ c \in calls
  /\ c.at = "sendMessage"
  /\ calls' = calls \ {c}
  /\ responses' = {r \in responses : r.call # c.id}
  /\ Commit(SendFailed(St, c.tab), CallTabs(calls \ {c}) \cup {hist.tab})
  /\ lastOp' = Op("sendMessage.reject", c.id)
  /\ UNCHANGED <<Cli, logins>>
  /\ UNCHANGED <<pc, accounts, hist, stops, nextConv, sends, Modal, edits>>

\* a message-stream event of the bridge for the message r
MessageStream(r, fullText) ==
  /\ r \in responses
  /\ pc = "ready"
  /\ Handler(onMessageStream(St, r.conv, fullText), "stream", r.call)
  /\ UNCHANGED <<Modal, edits>>

\* the message-complete event of the bridge for the message r; a page that
\* has not registered its callbacks yet misses it
MessageComplete(r) ==
  /\ r \in responses
  /\ responses' = responses \ {r}
  /\ Commit(IF pc = "ready" THEN onMessageComplete(St, r.conv, <<"msg", r.call>>)
            ELSE St,
            CallTabs(calls) \cup {hist.tab})
  /\ lastOp' = Op("complete", r.call)
  /\ UNCHANGED <<Cli, logins>>
  /\ UNCHANGED <<pc, accounts, hist, stops, calls, nextConv, sends, Modal, edits>>

\* a message-stream event of the bridge for a conversation it holds no
\* message of any more: the page's callback takes whatever event the bridge
\* sends, and the bridge may still send one after the sendMessage call
\* failed or the message completed
LateMessageStream(conv, fullText) ==
  /\ pc = "ready"
  /\ conv \in 1..(nextConv - 1)
  /\ \A r \in responses : r.conv # conv
  /\ Handler(onMessageStream(St, conv, fullText), "stream", conv)
  /\ UNCHANGED <<Modal, edits>>

\* ------------------------------------------------------------------ zencli
\* a step of zencli: the page's state is another program's
Page == <<pc, tabs, heap, activeTabId, accounts, Modal, storage, elems, shown,
          termVisible, sendBtnShown, hist, nextTabId, pills, nextAtt, Bridge,
          edits, lastOp, logins>>

\* zencli mode <mode-type>, up to the await in CLIUI.updateConfig
ModeCommand(modeType) ==
  /\ cliCmd.at = "idle"
  /\ IF IsValidMode(modeType)
     THEN /\ cliConfig' = updateConfig(cliConfig, [mode |-> modeType])
          /\ cliCmd' = [at |-> "loadConfig", newConfig |-> NoFile, out |-> ""]
     ELSE /\ cliConfig' = cliConfig
          /\ cliCmd' = Idle("Invalid mode")
  /\ UNCHANGED <<cliFile, cfgCalls, Page>>

\* ConfigStorage.updateConfig after its await of loadConfig
LoadConfigReturn ==
  /\ cliCmd.at = "loadConfig"
  /\ cliCmd' = [at |-> "saveConfig",
                newConfig |-> MergedConfig(loadConfig(cliFile), cliConfig),
                out |-> ""]
  /\ UNCHANGED <<cliConfig, cliFile, cfgCalls, Page>>

\* ConfigStorage.saveConfig: writeFile succeeds (written) or throws, which is
\* logged; then the command prints that the mode changed
SaveConfigReturn(written) ==
  /\ cliCmd.at = "saveConfig"
  /\ cliFile' = IF written THEN cliCmd.newConfig ELSE cliFile
  /\ cliCmd' = Idle("Mode changed")
  /\ UNCHANGED <<cliConfig, cfgCalls, Page>>

Zencli ==
  \/ \E modeType \in ModeInputs : ModeCommand(modeType)
  \/ LoadConfigReturn
  \/ \E written \in BOOLEAN : SaveConfigReturn(written)

\* a call that ConfigStorage or the CLIUI is given
Called(call) ==
  /\ Len(cfgCalls) < MaxCfgCalls
  /\ cfgCalls' = Append(cfgCalls, call)
  /\ UNCHANGED <<cliFile, cliCmd, Page>>

\* call i goes on after an await, as next
Resumed(i, next) ==
  /\ cfgCalls' = [cfgCalls EXCEPT ![i] = next]
  /\ UNCHANGED <<cliConfig, cliCmd, Page>>

\* saveClaudeAccount(account), up to its await of loadConfig
CallSaveClaudeAccount(accountId) ==
  /\ Called(NewCall("saveClaudeAccount", "saveClaudeAccount", accountId,
                    <<ClaudeAccount(accountId, 0)>>, TRUE))
  /\ UNCHANGED cliConfig

\* removeClaudeAccount(accountId), up to its await of loadConfig
CallRemoveClaudeAccount(accountId) ==
  /\ Called(NewCall("removeClaudeAccount", "removeClaudeAccount", accountId,
                    <<>>, TRUE))
  /\ UNCHANGED cliConfig

\* setActiveClaudeAccount(accountId), up to its await of getClaudeAccount
CallSetActiveClaudeAccount(accountId) ==
  /\ Called(NewCall("setActiveClaudeAccount", "getClaudeAccount", accountId,
                    <<>>, TRUE))
  /\ UNCHANGED cliConfig

\* updateAccountLastUsed(accountId), up to its await of getClaudeAccount
CallUpdateAccountLastUsed(accountId) ==
  /\ Called(NewCall("updateAccountLastUsed", "getClaudeAccount", accountId,
                    <<>>, TRUE))
  /\ UNCHANGED cliConfig

\* setActiveClaudeAccount and updateAccountLastUsed after getClaudeAccount
\* returned: the throw, or on to updateConfig / saveClaudeAccount
GetClaudeAccountReturn(i) ==
  /\ i \in 1..Len(cfgCalls)
  /\ cfgCalls[i].at = "getClaudeAccount"
  /\ LET call == cfgCalls[i]
         account == getClaudeAccount(loadConfig(cliFile), call.accountId)
     IN Resumed(i,
          IF account = <<>>
          THEN [call EXCEPT !.at = "done", !.error = NotFound(call.accountId)]
          ELSE IF call.op = "setActiveClaudeAccount"
          THEN [call EXCEPT !.at = "updateConfig",
                            !.partialConfig =
                               [activeClaudeAccountId |-> call.accountId]]
          ELSE [call EXCEPT !.at = "saveClaudeAccount",
                            !.account = <<[account[1] EXCEPT !.lastUsed = 1]>>])
  /\ UNCHANGED cliFile

\* saveClaudeAccount after loadConfig returned, up to updateConfig's await
SaveClaudeAccountLoaded(i) ==
  /\ i \in 1..Len(cfgCalls)
  /\ cfgCalls[i].at = "saveClaudeAccount"
  /\ Resumed(i, [cfgCalls[i] EXCEPT
                   !.at = "updateConfig",
                   !.partialConfig =
                      saveClaudeAccount(loadConfig(cliFile), cfgCalls[i].account[1])])
  /\ UNCHANGED cliFile

\* removeClaudeAccount after loadConfig returned, up to updateConfig's await
RemoveClaudeAccountLoaded(i) ==
  /\ i \in 1..Len(cfgCalls)
  /\ cfgCalls[i].at = "removeClaudeAccount"
  /\ Resumed(i, [cfgCalls[i] EXCEPT
                   !.at = "updateConfig",
                   !.partialConfig =
                      removeClaudeAccount(loadConfig(cliFile), cfgCalls[i].accountId)])
  /\ UNCHANGED cliFile

\* ConfigStorage.updateConfig(partialConfig) after loadConfig returned, up to
\* saveConfig's await
UpdateConfigLoaded(i) ==
  /\ i \in 1..Len(cfgCalls)
  /\ cfgCalls[i].at = "updateConfig"
  /\ Resumed(i, [cfgCalls[i] EXCEPT
                   !.at = "saveConfig",
                   !.newConfig =
                      updateConfig(loadConfig(cliFile), cfgCalls[i].partialConfig)])
  /\ UNCHANGED cliFile

\* ConfigStorage.saveConfig of a call: writeFile succeeds (written) or throws,
\* which is logged, and the call returns
SaveConfigDone(i, written) ==
  /\ i \in 1..Len(cfgCalls)
  /\ cfgCalls[i].at = "saveConfig"
  /\ cliFile' = IF written THEN cfgCalls[i].newConfig ELSE cliFile
  /\ Resumed(i, [cfgCalls[i] EXCEPT !.at = "done", !.written = written])

\* CLIUI.updateConfig(newConfig), up to its await of import().  A command
\* that awaits the call keeps the menu from running another command until
\* the call returns; changeProvider does not await it
CallUpdateConfig(newConfig, awaited) ==
  /\ \A i \in 1..Len(cfgCalls) : cfgCalls[i].at # "done" => ~cfgCalls[i].awaited
  /\ cliConfig' = updateConfig(cliConfig, newConfig)
  /\ Called(NewCall("updateConfig", "import", Undefined, <<>>, awaited))

\* CLIUI.updateConfig after import() returned: the argument of
\* storage.updateConfig is read from this.config now
ImportReturn(i) ==
  /\ i \in 1..Len(cfgCalls)
  /\ cfgCalls[i].at = "import"
  /\ Resumed(i, [cfgCalls[i] EXCEPT
                   !.at = "updateConfig",
                   !.partialConfig =
                      [model |-> cliConfig.model, provider |-> cliConfig.provider,
                       baseUrl |-> cliConfig.baseUrl, mode |-> cliConfig.mode]])
  /\ UNCHANGED cliFile

\* ConfigStorage.updateConfig, the tail of every call
StorageUpdate ==
  \/ \E i \in 1..MaxCfgCalls : UpdateConfigLoaded(i)
  \/ \E i \in 1..MaxCfgCalls, written \in BOOLEAN : SaveConfigDone(i, written)

\* the account functions of ConfigStorage, called at any time
Accounts ==
  \/ \E accountId \in ClaudeAccountIds : CallSaveClaudeAccount(accountId)
  \/ \E accountId \in ClaudeAccountIds : CallRemoveClaudeAccount(accountId)
  \/ \E accountId \in ClaudeAccountIds : CallSetActiveClaudeAccount(accountId)
  \/ \E accountId \in ClaudeAccountIds : CallUpdateAccountLastUsed(accountId)
  \/ \E i \in 1..MaxCfgCalls : GetClaudeAccountReturn(i)
  \/ \E i \in 1..MaxCfgCalls : SaveClaudeAccountLoaded(i)
  \/ \E i \in 1..MaxCfgCalls : RemoveClaudeAccountLoaded(i)

\* the commands of the interactive menu that change the config
ConfigCommands ==
  \/ \E model \in CliModels : CallUpdateConfig([model |-> model], TRUE)
  \/ \E provider \in Providers : CallUpdateConfig([provider |-> provider], FALSE)
  \/ \E i \in 1..MaxCfgCalls : ImportReturn(i)

\* ----------------------------------------------------------- specifications
Startup ==
  \/ \E isAuth \in BOOLEAN : GetAuthStatus(isAuth)
  \/ \E success \in BOOLEAN : GetAccounts(success)
  \/ \E account \in AccountIds \cup {NoAccount} : GetActiveAccount(account)

NewTabFlow ==
  \/ NewTabBtnClick
  \/ \E type \in TabTypes : TabTypeBtnClick(type)
  \/ \E accountId \in AccountIds : AccountOptionClick(accountId)
  \/ CancelNewTab
  \/ AddAccountForTabClick

TabBar ==
  \/ \E tabId \in 1..MaxTabIds : TabClick(tabId)
  \/ \E tabId \in 1..MaxTabIds : TabCloseClick(tabId)

Editing ==
  \/ \E newName \in PromptNames : InputBadgeClick(newName)
  \/ \E model \in Models : ModelSelectorChange(model)
  \/ \E mode \in TabTypes : ModeToggleClick(mode)

History ==
  \/ \E data \in HistoryPayloads : LoadConversationData(data)
  \/ LoadConversationNone

Chat ==
  \/ \E text \in InputTexts : InputEnter(text)
  \/ \E text \in InputTexts : SendBtnClick(text)
  \/ \E c \in calls : CreateConversationResolve(c)
  \/ \E c \in calls : CreateConversationReject(c)
  \/ \E c \in calls : SendMessageResolve(c)
  \/ \E c \in calls : SendMessageReject(c)
  \/ \E r \in responses, fullText \in StreamTexts : MessageStream(r, fullText)
  \/ \E r \in responses : MessageComplete(r)

Terminal == \E data \in {CR, DEL, ETX} \cup TermChars : TerminalInput(data)

Stopping ==
  \/ StopBtnClick
  \/ \E i \in 1..MaxStops : StopResponseResolve(i)
  \/ \E i \in 1..MaxStops : StopResponseReject(i)

Attachments ==
  \/ \E n \in 0..MaxAttachments : FileInputChange(n)
  \/ \E c \in calls : UploadResolve(c)
  \/ \E c \in calls : UploadReject(c)
  \/ \E id \in 1..MaxAttachments : AttachmentRemoveClick(id)

\* the tab registry: startup and restore, the new-tab flow, the tab bar, the
\* edits of the active tab
Next == Startup \/ Restart \/ NewTabFlow \/ TabBar \/ Editing

Spec == Init /\ [][Next]_vars

\* the conversations of the tabs in one run of the page: at most
\* MaxChatTabIds tabs, opened before the first send, and the sends of the
\* input box
NextChat ==
  \/ Startup
  \/ (nextTabId <= MaxChatTabIds /\ sends = 0 /\ NewTabFlow)
  \/ TabBar
  \/ Chat

SpecChat == Init /\ [][NextChat]_vars

\* one tab in one run of the page, with its mode toggle, its terminal and
\* every key, and the sends
NextTerm ==
  \/ Startup
  \/ \E mode \in TabTypes : ModeToggleClick(mode)
  \/ \E data \in TermKeys : TerminalInput(data)
  \/ Chat

SpecTerm == Init /\ [][NextTerm]_vars

\* the sends of the startup tab, with a bridge that can send message-stream
\* events late
NextLate ==
  \/ Startup
  \/ Chat
  \/ \E conv \in 1..MaxSends, fullText \in StreamTexts :
       LateMessageStream(conv, fullText)

SpecLate == Init /\ [][NextLate]_vars

\* the message-complete event as the step it is for the bridge: one of the
\* messages it was given is gone and the suspended invocations are the
\* same.  In a run of the page these are the steps of MessageComplete, which
\* is enabled for every message the bridge holds
Delivered == \E r \in responses : responses' = responses \ {r} /\ calls' = calls

\* the bridge answers: it does not hold a message for ever; the message is
\* completed in the end, unless its sendMessage call is rejected first
BridgeAnswers == WF_<<responses, calls>>(Delivered)

\* SpecChat with a bridge that answers
SpecChatLive == SpecChat /\ BridgeAnswers

\* one tab with its terminal, over restarts of the page: the sends of the
\* input box and of the terminal, the edits of the tab, and the history the
\* restore loads
NextCli ==
  \/ Startup
  \/ Restart
  \/ History
  \/ (nextTabId <= MaxCliTabIds /\ NewTabFlow)
  \/ TabBar
  \/ Editing
  \/ Chat
  \/ Terminal

SpecCli == Init /\ [][NextCli]_vars

\* the attachments of the tabs in one run of the page: the uploads, the
\* removals and up to MaxAttachSends sends of the input box, on up to
\* MaxChatTabIds tabs opened before the first upload or send
NextAttach ==
  \/ Startup
  \/ (nextTabId <= MaxChatTabIds /\ sends = 0 /\ nextAtt = 1 /\ NewTabFlow)
  \/ TabBar
  \/ Attachments
  \/ (Chat /\ sends' <= MaxAttachSends)

SpecAttach == Init /\ [][NextAttach]_vars

\* what saveTabs left of two tabs, each with a conversation or none, either
\* of them active, or of none
HistoryStored ==
  {NoStorage} \cup
  {[present |-> TRUE, parses |-> TRUE,
    tabs |-> << [StoredTab(1) EXCEPT !.conversationId = c1,
                                     !.parentMessageUuid =
                                       IF c1 = Null THEN NoUuid ELSE <<"root", c1>>],
                [StoredTab(2) EXCEPT !.conversationId = c2,
                                     !.parentMessageUuid =
                                       IF c2 = Null THEN NoUuid ELSE <<"root", c2>>] >>,
    active |-> a] : c1 \in {Null, 1}, c2 \in {Null, 2}, a \in {1, 2}}

\* a run of the page after one that left two tabs
InitHistory ==
  /\ InitMemory
  /\ InitCli
  /\ storage \in HistoryStored
  /\ nextTabId = MaxStored + 1

\* startup with the history of the restored tabs, and the tab bar
NextHistory ==
  \/ Startup
  \/ \E data \in HistoryInputs : LoadConversationData(data)
  \/ LoadConversationNone
  \/ TabBar

SpecHistory == InitHistory /\ [][NextHistory]_vars

\* the config files zencli can find: none, or one with or without a mode
\* and accounts
ConfigFiles ==
  {NoFile} \cup
  {[NoFile EXCEPT !.readable = TRUE, !.mode = m, !.model = "m1",
                   !.claudeAccounts = a] :
     m \in ValidModes \cup {Undefined},
     a \in {<<>>, <<ClaudeAccount("u1", 0)>>}}

\* zencli starts with any mode and any config file
InitZencli ==
  /\ InitMemory
  /\ storage = NoStorage
  /\ nextTabId = 1
  /\ cliConfig \in {[DefaultConfig EXCEPT !.mode = m] : m \in ValidModes}
  /\ cliFile \in ConfigFiles
  /\ cliCmd = Idle("")
  /\ cfgCalls = <<>>

SpecZencli == InitZencli /\ [][Zencli]_vars

\* the stored configs with accounts: any list without a repeated account,
\* and no active account or one of the list
AccountLists ==
  {<<>>} \cup {<<ClaudeAccount(a, 0)>> : a \in ClaudeAccountIds}
         \cup {list \in {<<ClaudeAccount(a, 0), ClaudeAccount(b, 0)>> :
                           a \in ClaudeAccountIds, b \in ClaudeAccountIds} :
                 list[1] # list[2]}

AccountFiles ==
  {NoFile} \cup
  UNION {{[NoFile EXCEPT !.readable = TRUE, !.claudeAccounts = list,
                          !.activeClaudeAccountId = active] :
            active \in {Undefined} \cup {list[i].accountId : i \in 1..Len(list)}} :
         list \in AccountLists}

\* zencli with any such file, no command running
InitAccounts ==
  /\ InitMemory
  /\ storage = NoStorage
  /\ nextTabId = 1
  /\ cliConfig = DefaultConfig
  /\ cliFile \in AccountFiles
  /\ cliCmd = Idle("")
  /\ cfgCalls = <<>>

\* the account functions called in any order, a call made while another is
\* at an await or after it returned
NextAccounts == Accounts \/ StorageUpdate

SpecAccounts == InitAccounts /\ [][NextAccounts]_vars

\* the menu's config commands, a command chosen while changeProvider's
\* update is still at an await or after it returned
NextConfig == ConfigCommands \/ StorageUpdate

SpecConfig == InitZencli /\ [][NextConfig]_vars

\* startup over any localStorage, and the tab bar
NextRestore == Startup \/ TabBar

SpecRestore == InitRestore /\ [][NextRestore]_vars

\* the sends of SpecChat with the stop button
NextStop == NextChat \/ Stopping

SpecStop == Init /\ [][NextStop]_vars

\* ------------------------------------------------- the functions, called
\* what lastOp keeps of a call: its argument, and the tab list and the active
\* pointer it found
Pre(tabId) == [tabId |-> tabId, tabs |-> tabs, active |-> activeTabId]

\* createTab(accountId, name, tabType) called on the ready page
CallCreateTab(accountId, name, tabType) ==
  /\ pc = "ready"
  /\ nextTabId <= MaxTabIds
  /\ Handler(createTab(St, accountId, name, tabType), "createTab.call",
             Pre(nextTabId))
  /\ UNCHANGED <<Modal, edits>>

\* switchTab(tabId) called on the ready page
CallSwitchTab(tabId) ==
  /\ pc = "ready"
  /\ Handler(switchTab(St, tabId), "switchTab.call", Pre(tabId))
  /\ UNCHANGED <<Modal, edits>>

\* closeTab(tabId) called on the ready page
CallCloseTab(tabId) ==
  /\ pc = "ready"
  /\ Handler(closeTab(St, tabId), "closeTab.call", Pre(tabId))
  /\ UNCHANGED <<Modal, edits>>

\* updateTabName(tabId, name) called on the ready page
CallUpdateTabName(tabId, name) ==
  /\ pc = "ready"
  /\ edits < MaxEdits
  /\ edits' = edits + 1
  /\ Handler(updateTabName(St, tabId, name), "updateTabName.call", Pre(tabId))
  /\ UNCHANGED Modal

Calls ==
  \/ \E accountId \in AccountIds, name \in PromptNames, tabType \in TabTypes :
       CallCreateTab(accountId, name, tabType)
  \/ \E tabId \in 1..MaxTabIds : CallSwitchTab(tabId)
  \/ \E tabId \in 1..MaxTabIds : CallCloseTab(tabId)
  \/ \E tabId \in 1..MaxTabIds : CallUpdateTabName(tabId, CustomName)

\* the functions of the tab registry called directly on the ready page, in
\* any order and with any argument
NextCalls == Startup \/ Calls

SpecCalls == Init /\ [][NextCalls]_vars

\* what saveTabs left of two tabs of either type, either of them active, or
\* of none
SwitchStored ==
  {NoStorage} \cup
  {[present |-> TRUE, parses |-> TRUE,
    tabs |-> << [StoredTab(1) EXCEPT !.tabType = t1],
                [StoredTab(2) EXCEPT !.tabType = t2] >>,
    active |-> a] : t1 \in TabTypes, t2 \in TabTypes, a \in {1, 2}}

\* a run of the page after one that left gui and cli tabs
InitSwitch ==
  /\ InitMemory
  /\ InitCli
  /\ storage \in SwitchStored
  /\ nextTabId = MaxStored + 1

\* startup, then switchTab and closeTab called with any argument
NextSwitch ==
  \/ Startup
  \/ \E tabId \in 1..MaxTabIds : CallSwitchTab(tabId)
  \/ \E tabId \in 1..MaxTabIds : CallCloseTab(tabId)

SpecSwitch == InitSwitch /\ [][NextSwitch]_vars

\* what saveTabs left of up to MaxStored gui tabs, or of none
LoginStored ==
  {NoStorage} \cup
  UNION {{[present |-> TRUE, parses |-> TRUE,
           tabs |-> [i \in 1..n |-> StoredTab(i)], active |-> a] :
            a \in 1..n} : n \in 1..MaxStored}

\* a run of the page after one that left gui tabs
InitLogin ==
  /\ InitMemory
  /\ InitCli
  /\ storage \in LoginStored
  /\ nextTabId = MaxStored + 1

\* startup, the tab bar and the login button.  The tabs are gui tabs without
\* messages, so that two tab objects with one id are equal in every field
\* and heap, which holds one object per id, stands for both
NextLogin ==
  \/ Startup
  \/ TabBar
  \/ \E success \in BOOLEAN : LoginReturn(success)

SpecLogin == InitLogin /\ [][NextLogin]_vars

\* the same page with the login button of the login modal; the user keeps
\* clicking and the bridge keeps answering
NextLoginLive == NextLogin \/ LoginBtnClick

SpecLoginLive ==
  InitLogin /\ [][NextLoginLive]_vars /\ WF_vars(NextLoginLive)

\* ------------------------------------------------------------------- claims
\* the sends of tab t that the bridge has and that have neither completed nor
\* failed
InFlight(t) ==
  {c.id : c \in {d \in calls : d.tab = t /\ d.at = "sendMessage"}}
    \cup {r.call : r \in {q \in responses : q.tab = t}}

\* the elements the sendMessage invocation k appended to the messages of tab t
RecordsOf(h, es, t, k) ==
  {i \in 1..Len(h[t].messages) : es[h[t].messages[i]].by = k}

\* C1: in every reachable state at most MAX_TABS tabs are open
C1_TabCountAtMostMax == Len(tabs) <= MAX_TABS

\* MAX_TABS tabs are open and the new-tab button has just refused
C1_Witness == Len(tabs) = MAX_TABS /\ lastOp.op = "newTab.full"

\* C2: createTab called while MAX_TABS tabs are open leaves the tab list, the
\* active pointer and the persisted snapshot unchanged; below capacity it
\* appends exactly one tab with default fields, makes it active and persists
C2_CreateRefusesAtCapacity ==
  [][lastOp'.op = "createTab.call" =>
       IF Len(tabs) >= MAX_TABS
       THEN UNCHANGED <<tabs, activeTabId, storage>>
       ELSE /\ Len(tabs') = Len(tabs) + 1
            /\ SeqOf(tabs', Len(tabs)) = tabs
            /\ LET t == heap'[tabs'[Len(tabs')]] IN
               /\ t.conversationId = Null
               /\ t.parentMessageUuid = NoUuid
               /\ t.messages = <<>>
               /\ ~t.isLoading
               /\ t.pendingAttachments = <<>>
            /\ activeTabId' = tabs'[Len(tabs')]
            /\ storage'.present
            /\ storage'.active = activeTabId'
            /\ [i \in 1..Len(storage'.tabs) |-> storage'.tabs[i].id] = tabs']_vars

\* C3: the active pointer is the id of an open tab, or null with no tab open
C3_ActiveTabIsOpen ==
  \/ activeTabId \in Range(tabs)
  \/ activeTabId = Null /\ tabs = <<>>

\* tabs have been closed and the active tab is not the one created last: a
\* close or a switch has moved the pointer
C3_Witness ==
  /\ pc = "ready"
  /\ storage.present
  /\ Len(tabs) >= 2
  /\ nextTabId > Len(tabs) + 1
  /\ activeTabId \in Range(tabs)
  /\ activeTabId # tabs[Len(tabs)]

\* C4: closeTab on a list of exactly one tab changes neither the list, the
\* active pointer nor the snapshot, and no step of the ready page empties a
\* list that holds a tab
C4_CloseSoleTabIsNoOp ==
  [][/\ (lastOp'.op = "closeTab.call" /\ Len(tabs) = 1)
          => UNCHANGED <<tabs, activeTabId, storage>>
     /\ (pc = "ready" /\ pc' = "ready" /\ tabs # <<>>) => tabs' # <<>>]_vars

\* closeTab has just been called on the sole tab
C4_Witness ==
  /\ lastOp.op = "closeTab.call"
  /\ Len(lastOp.arg.tabs) = 1
  /\ lastOp.arg.tabId = lastOp.arg.tabs[1]
  /\ tabs = lastOp.arg.tabs

\* C5: when closeTab removes the active tab from a list of at least 2 tabs,
\* the tab before it becomes active, or the next one if it was the first
C5_CloseActivatesPreceding ==
  [][(/\ lastOp'.op = "closeTab.call"
      /\ Len(tabs) >= 2
      /\ activeTabId = lastOp'.arg.tabId
      /\ IndexOf(tabs, activeTabId, 1) # 0)
       => LET i == IndexOf(tabs, activeTabId, 1) IN
          /\ Len(tabs') = Len(tabs) - 1
          /\ activeTabId' = IF i = 1 THEN tabs[2] ELSE tabs[i - 1]]_vars

\* closeTab has just removed the active tab, the last of three, and the
\* second is active
C5_Witness ==
  /\ lastOp.op = "closeTab.call"
  /\ Len(lastOp.arg.tabs) = 3
  /\ lastOp.arg.tabId = lastOp.arg.tabs[3]
  /\ lastOp.arg.active = lastOp.arg.tabId
  /\ tabs = SeqOf(lastOp.arg.tabs, 2)
  /\ activeTabId = lastOp.arg.tabs[2]

\* C6: streamingElement is non-null only if isLoading is true, for every tab
C6_StreamingOnlyWhileLoading ==
  \A t \in Range(tabs) : heap[t].streamingElement # Null => heap[t].isLoading

\* C7: at most one send is in flight per tab
C7_OneSendInFlight == \A t \in DOMAIN heap : Cardinality(InFlight(t)) <= 1

\* C8: a tab's conversationId is null until a send has been made and, once
\* non-null, never changes
C8_ConversationIdImmutable ==
  [][/\ \A t \in DOMAIN heap' : heap'[t].conversationId # Null => sends' > 0
     /\ \A t \in DOMAIN heap \cap DOMAIN heap' :
          heap[t].conversationId # Null
            => heap'[t].conversationId = heap[t].conversationId]_vars

\* C9: conversationId is non-null iff parentMessageUuid is non-null, for
\* every tab
C9_ConversationIffParent ==
  \A t \in DOMAIN heap :
    (heap[t].conversationId # Null) <=> (heap[t].parentMessageUuid # NoUuid)

\* a restored tab whose conversation history has been loaded
C9_Witness ==
  \E t \in Range(tabs) :
    /\ heap[t].conversationId # Null
    /\ heap[t].parentMessageUuid = <<"hist", 2>>

\* C10: when createConversation fails the send is aborted: no record of it is
\* in any tab's messages, pendingAttachments is as it was, and a tab with no
\* other send is not loading and has no streaming element
C10_FailedCreateAbortsSend ==
  [][\A c \in calls :
       (c.at = "createConversation" /\ calls' = calls \ {c}
          /\ nextConv' = nextConv /\ pc' = pc)
         => /\ \A t \in DOMAIN heap' : RecordsOf(heap', elems', t, c.id) = {}
            /\ \A t \in DOMAIN heap \cap DOMAIN heap' :
                 heap'[t].pendingAttachments = heap[t].pendingAttachments
            /\ (c.tab \in DOMAIN heap' /\ heap'[c.tab].conversationId = Null)
                 => /\ ~heap'[c.tab].isLoading
                    /\ heap'[c.tab].streamingElement = Null]_vars

\* C11: the step of sendMessage that reaches the bridge hands it the
\* document ids of exactly the attachments the tab had pending before the
\* step, in their order, and leaves the tab with none pending.
C11_FlushIsAtomic ==
  [][\A r \in responses' \ responses :
       /\ r.tab \in DOMAIN heap
       /\ r.attachments =
            [i \in 1..Len(heap[r.tab].pendingAttachments) |->
               heap[r.tab].pendingAttachments[i].document_id]
       /\ heap'[r.tab].pendingAttachments = <<>>]_vars

\* a send went to the bridge with two attachments, and its tab has none
\* pending
C11_Witness ==
  \E r \in responses :
    /\ Len(r.attachments) = 2
    /\ r.attachments[1] # r.attachments[2]
    /\ r.tab \in DOMAIN heap
    /\ heap[r.tab].pendingAttachments = <<>>

\* C12: a message-stream event for the conversation of a tab that is loading
\* leaves the tab's placeholder holding the rendering of that event's text
\* and nothing else; the placeholder stays the tab's streaming element and no
\* other element changes.
C12_StreamOverwritesPlaceholder ==
  [][\A r \in responses, fullText \in StreamTexts :
       LET tab == FindByConversation(St, r.conv, 1) IN
       (MessageStream(r, fullText) /\ tab # Null /\ heap[tab].isLoading)
         => LET el == heap[tab].streamingElement IN
            /\ el \in DOMAIN elems
            /\ heap'[tab].streamingElement = el
            /\ elems'[el].content = parseMarkdown(fullText)
            /\ \A e \in DOMAIN elems \ {el} : elems'[e] = elems[e]]_vars

\* a loading tab whose placeholder shows the longer of the stream texts
C12_Witness ==
  \E t \in Range(tabs) :
    /\ heap[t].isLoading
    /\ heap[t].streamingElement \in DOMAIN elems
    /\ elems[heap[t].streamingElement].content = parseMarkdown(<<"H", "e">>)

\* C13: when the page hears a message-complete event for the conversation of
\* one of its tabs, that tab's parentMessageUuid becomes the event's message
\* id, its isLoading false and its streamingElement null, and localStorage
\* holds the snapshot of the tabs as they are after the event, with the new
\* parentMessageUuid in the tab's entry.
C13_CompleteSettlesTab ==
  [][\A r \in responses :
       LET tab == FindByConversation(St, r.conv, 1) IN
       (MessageComplete(r) /\ pc = "ready" /\ tab # Null)
         => /\ heap'[tab].parentMessageUuid = <<"msg", r.call>>
            /\ heap'[tab].isLoading = FALSE
            /\ heap'[tab].streamingElement = Null
            /\ storage' = saveTabs(St').storage
            /\ storage'.tabs[IndexOf(tabs', tab, 1)].parentMessageUuid
                 = <<"msg", r.call>>]_vars

\* a tab whose send completed: idle, its parent the completed message's id,
\* in memory and in the stored snapshot
C13_Witness ==
  \E t \in Range(tabs) : \E k \in 1..MaxSends :
    /\ heap[t].parentMessageUuid = <<"msg", k>>
    /\ ~heap[t].isLoading
    /\ heap[t].streamingElement = Null
    /\ storage.present
    /\ storage.tabs[IndexOf(tabs, t, 1)].parentMessageUuid = <<"msg", k>>

\* C14: when the bridge's sendMessage fails for a send of an open tab that is
\* loading, the tab's placeholder holds the error marker, its isLoading is
\* false, its streamingElement is null, and no call goes to the bridge.
C14_FailedSendSettlesTab ==
  [][\A c \in calls :
       (SendMessageReject(c) /\ c.tab \in Range(tabs) /\ heap[c.tab].isLoading)
         => /\ elems'[heap[c.tab].streamingElement].content = ErrorMarker
            /\ heap'[c.tab].isLoading = FALSE
            /\ heap'[c.tab].streamingElement = Null
            /\ calls' \subseteq calls
            /\ responses' \subseteq responses]_vars

\* C15: a step that calls the bridge's stopResponse starts with an active tab
\* whose isLoading is true.
C15_StopOnlyWhileLoading ==
  [][Len(stops') > Len(stops)
       => /\ getActiveTab(St) # Null
          /\ heap[activeTabId].isLoading]_vars

\* C16: a click on the stop button and the return or the failure of its
\* stopResponse call change no tab, no message element, no active pointer and
\* no snapshot; and a tab that stays in memory goes from loading to not
\* loading only in a step of a message-complete event or of a failed send.
C16_StopChangesNoTab ==
  [][/\ (StopBtnClick
          \/ (\E i \in DOMAIN stops : StopResponseResolve(i))
          \/ (\E i \in DOMAIN stops : StopResponseReject(i)))
         => /\ heap' = heap
            /\ tabs' = tabs
            /\ activeTabId' = activeTabId
            /\ elems' = elems
            /\ storage' = storage
     /\ \A t \in DOMAIN heap \cap DOMAIN heap' :
          (heap[t].isLoading /\ ~heap'[t].isLoading)
            => \/ \E r \in responses : MessageComplete(r)
               \/ \E c \in calls : SendMessageReject(c)]_vars

\* stopResponse was called for a tab that is loading, and the tab is loading
\* still
C16_Witness ==
  /\ Len(stops) > 0
  /\ \E t \in Range(tabs) :
       /\ heap[t].conversationId = stops[1]
       /\ heap[t].isLoading
       /\ heap[t].streamingElement # Null

\* C17: when the page is ready with tabs open and no handler is suspended at
\* an await, localStorage holds the snapshot saveTabs would write now: the
\* durable fields of every open tab in order, and the active tab's id.
C17_SnapshotMatchesMemory ==
  (pc = "ready" /\ calls = {} /\ stops = <<>> /\ tabs # <<>>)
    => storage = saveTabs(St).storage

\* the page's memory emptied, with localStorage as saveTabs writes it now
SavedThenEmptied ==
  [St EXCEPT !.tabs = <<>>, !.heap = <<>>, !.activeTabId = Null,
             !.storage = saveTabs(St).storage]

WellFormed(e) ==
  /\ e # NullEntry
  /\ e.accountId # Undefined
  /\ e.model # Undefined

\* C19: when restoreTabs has read a stored array, the tabs are exactly its
\* well-formed entries, in their order, and no tab lacks accountId or model.
C19_BadEntriesDroppedOneByOne ==
  [][(pc = "accounts" /\ pc' # "accounts" /\ storage.present /\ storage.parses)
       => LET good == SelectSeq(storage.tabs, WellFormed) IN
          /\ tabs' = [i \in 1..Len(good) |-> good[i].id]
          /\ \A t \in Range(tabs') :
               /\ heap'[t].accountId # Undefined
               /\ heap'[t].model # Undefined]_vars

\* C20: when restoreTabs found no tab to restore, then once getActiveAccount
\* has returned there is exactly one tab, of one of the bridge's accounts,
\* and it is the active tab.
C20_EmptyRestoreMakesDefaultTab ==
  [][(pc = "defaultAccount" /\ pc' = "ready")
       => /\ Len(tabs') = 1
          /\ activeTabId' = tabs'[1]
          /\ heap'[tabs'[1]].accountId \in AccountIds]_vars

\* the messages of a conversation, oldest first
Ascending(ms) ==
  CHOOSE q \in [1..Len(ms) -> Range(ms)] :
    /\ Range(q) = Range(ms)
    /\ \A i, j \in 1..Len(ms) : i < j => q[i].created_at <= q[j].created_at

\* a message of a conversation that has text and a sender the page shows
TextBearing(msg) ==
  /\ MessageText(msg) # <<>>
  /\ msg.sender \in {"human", "assistant"}

\* the record a message of a conversation is shown as
HistoryRecord(msg) ==
  [role |-> IF msg.sender = "human" THEN "user" ELSE "assistant",
   content |-> IF msg.sender = "human" THEN escapeHtml(MessageText(msg))
               ELSE parseMarkdown(MessageText(msg)),
   by |-> 0]

\* the records a conversation is shown as, oldest first
HistoryRecords(data) ==
  LET visible == SelectSeq(Ascending(data.chat_messages), TextBearing)
  IN [i \in 1..Len(visible) |-> HistoryRecord(visible[i])]

\* the records of a tab's messages in state (h, es)
MessageRecords(h, es, t) == [i \in 1..Len(h[t].messages) |-> es[h[t].messages[i]]]

\* C21: when the history of a restored tab that is still open arrives, the
\* tab's messages become the records of the conversation's messages in
\* ascending order of their timestamps, and the tab's parentMessageUuid the
\* uuid of the latest one.
C21_HistorySortedIntoTab ==
  [][\A data \in HistoryInputs :
       (/\ LoadConversationData(data)
        /\ data.chat_messages # <<>>
        /\ hist.tab \in Range(tabs))
         => LET sorted == Ascending(data.chat_messages) IN
            /\ MessageRecords(heap', elems', hist.tab) = HistoryRecords(data)
            /\ heap'[hist.tab].parentMessageUuid = sorted[Len(sorted)].uuid]_vars

\* C22: when the history of a restored tab that is still open arrives, no
\* other tab's messages change, and the tab itself gets as many records as
\* its conversation has text-bearing messages.
C22_HistoryGoesToOwnTab ==
  [][\A data \in HistoryInputs :
       (LoadConversationData(data) /\ hist.tab \in Range(tabs))
         => /\ \A t \in Range(tabs) \ {hist.tab} :
                 heap'[t].messages = heap[t].messages
            /\ Len(heap'[hist.tab].messages)
                 = Len(heap[hist.tab].messages) + Len(HistoryRecords(data))]_vars

\* C23: when createConversation returns to a send that an open tab started,
\* that tab's messages get the user record and the placeholder, its
\* streamingElement is the placeholder in its own messages, and no other
\* tab's messages, pending attachments or isLoading change.
C23_SendStaysOnItsTab ==
  [][\A c \in calls :
       (CreateConversationResolve(c) /\ c.tab \in Range(tabs))
         => LET old == heap[c.tab].messages
                new == heap'[c.tab].messages
            IN /\ Len(new) = Len(old) + 2
               /\ SeqOf(new, Len(old)) = old
               /\ elems'[new[Len(old) + 1]].role = "user"
               /\ heap'[c.tab].streamingElement = new[Len(old) + 2]
               /\ \A t \in Range(tabs) \ {c.tab} :
                    /\ heap'[t].messages = heap[t].messages
                    /\ heap'[t].pendingAttachments = heap[t].pendingAttachments
                    /\ heap'[t].isLoading = heap[t].isLoading]_vars

\* the pending attachments of every open tab are the same after the step
PendingUnchanged(except) ==
  \A t \in Range(tabs) \ except :
    heap'[t].pendingAttachments = heap[t].pendingAttachments

\* the ids of the attachments pending on any tab in memory
PendingIds == UNION {Range(AttachmentIds(heap[t].pendingAttachments)) : t \in DOMAIN heap}

\* C24: selecting files and the failure of their upload change no tab's
\* pending attachments.  When the upload of n files returns, the tab that was
\* active at the selection (if still open) has its earlier attachments
\* followed by the n results in the bridge's order, each with an id no
\* pending attachment had, and no other tab's pending attachments change.
C24_UploadAllOrNothing ==
  [][/\ \A n \in 0..MaxAttachments : FileInputChange(n) => PendingUnchanged({})
     /\ \A c \in calls :
          /\ UploadReject(c) => PendingUnchanged({})
          /\ (UploadResolve(c) /\ c.tab \in Range(tabs))
               => LET old == heap[c.tab].pendingAttachments
                      new == heap'[c.tab].pendingAttachments
                      n == Len(c.message)
                  IN /\ Len(new) = Len(old) + n
                     /\ SeqOf(new, Len(old)) = old
                     /\ \A i \in 1..n :
                          /\ new[Len(old) + i].document_id = <<"doc", c.id + i - 1>>
                          /\ new[Len(old) + i].id \notin PendingIds
                          /\ \A j \in 1..n :
                               i # j => new[Len(old) + i].id # new[Len(old) + j].id
                     /\ PendingUnchanged({c.tab})]_vars

\* a tab that is not the active one holds the results of two uploads (or of
\* one upload of two files), in order
C24_Witness ==
  \E t \in Range(tabs) :
    /\ t # activeTabId
    /\ Len(heap[t].pendingAttachments) = 2
    /\ heap[t].pendingAttachments[1].id < heap[t].pendingAttachments[2].id

Fields(h, t) == [h[t] EXCEPT !.terminal = FALSE, !.buf = <<>>]

\* what a call switchTab(tabId) that finds another open tab does to the
\* active pointer, the tab list and the snapshot
Switched(tabId) ==
  /\ activeTabId' = tabId
  /\ tabs' = tabs
  /\ storage' = [present |-> TRUE, parses |-> TRUE,
                 tabs |-> [i \in 1..Len(tabs) |-> Snapshot(heap'[tabs[i]])],
                 active |-> tabId]

IsPrefix(a, b) == Len(a) <= Len(b) /\ a = SeqOf(b, Len(a))

UniqueIds(ts) == \A i, j \in DOMAIN ts : i # j => ts[i] # ts[j]

\* C28: no two open tabs share an id, and a tab object keeps the id it was
\* created or restored with, in every step, those of an init() that runs
\* again after a login included
C28_TabIdsUniqueAndImmutable ==
  [][/\ UniqueIds(tabs')
     /\ \A t \in DOMAIN heap' : heap'[t].id = t]_vars

\* tab t is open and loading
Loading(t) == t \in Range(tabs) /\ heap[t].isLoading

\* C29: a tab that is loading stays loading through every step but the
\* message-complete event and the rejection of sendMessage (a sendMessage
\* that merely resolves leaves it loading), and with a bridge that does
\* answer every open tab that is loading stops loading in the end (Loading
\* leads to ~Loading, which is to say that ~Loading holds again and again)
C29_LoadingUntilAnswered ==
  /\ [][\A t \in Range(tabs) \cap Range(tabs') :
          (heap[t].isLoading /\ ~heap'[t].isLoading)
            => \/ \E r \in responses : MessageComplete(r)
               \/ \E c \in calls : SendMessageReject(c)]_vars
  /\ \A t \in 1..MaxChatTabIds : []<>~Loading(t)

\* a message-complete event has ended the loading of a tab whose
\* sendMessage call had resolved before
C29_Witness ==
  \E t \in Range(tabs) :
    /\ ~heap[t].isLoading
    /\ heap[t].streamingElement = Null
    /\ heap[t].parentMessageUuid # NoUuid
    /\ heap[t].parentMessageUuid[1] = "msg"
    /\ calls = {}

\* C30: closeTab on an open tab that is not the active one removes that
\* tab and no other, leaves the other tabs in the order they had and with
\* the fields they had, and leaves the active pointer alone; closeTab on an
\* id that no open tab has changes nothing
C30_CloseInactiveKeepsRest ==
  [][\A tabId \in 1..MaxTabIds :
       CallCloseTab(tabId) =>
         IF tabId \notin Range(tabs)
         THEN UNCHANGED <<tabs, heap, activeTabId, storage>>
         ELSE tabId # activeTabId =>
                /\ tabs' = RemoveAt(tabs, IndexOf(tabs, tabId, 1))
                /\ tabId \notin Range(tabs')
                /\ \A t \in Range(tabs') : heap'[t] = heap[t]
                /\ activeTabId' = activeTabId]_vars

\* closeTab has just removed the first of three tabs while the third was
\* active
C30_Witness ==
  /\ lastOp.op = "closeTab.call"
  /\ Len(lastOp.arg.tabs) = 3
  /\ lastOp.arg.tabId = lastOp.arg.tabs[1]
  /\ lastOp.arg.active = lastOp.arg.tabs[3]
  /\ tabs = <<lastOp.arg.tabs[2], lastOp.arg.tabs[3]>>
  /\ activeTabId = lastOp.arg.active

\* what an event for conversation conv may change: when an open tab has the
\* conversation, nothing of any other tab, neither its fields nor the records
\* its messages hold; when none has, nothing of the page
EventFrame(conv) ==
  LET tab == FindByConversation(St, conv, 1) IN
  IF tab = Null
  THEN UNCHANGED <<tabs, heap, activeTabId, storage, elems, shown, termVisible,
                   sendBtnShown, pills>>
  ELSE \A t \in Range(tabs) \ {tab} :
         /\ heap'[t] = heap[t]
         /\ MessageRecords(heap', elems', t) = MessageRecords(heap, elems, t)

\* C31: a message-stream or message-complete event for a conversation
\* changes only the tab that has that conversation, and nothing at all when
\* no open tab has it
C31_EventTouchesOnlyItsTab ==
  [][/\ \A r \in responses, fullText \in StreamTexts :
          MessageStream(r, fullText) => EventFrame(r.conv)
     /\ \A r \in responses :
          (MessageComplete(r) /\ pc = "ready") => EventFrame(r.conv)]_vars

\* C32: a message-stream event for the conversation of a tab whose sends
\* have all ended, by completion or by failure, changes the content of no
\* message element; an error marker stays
C32_LateStreamChangesNothing ==
  [][\A conv \in 1..MaxSends, fullText \in StreamTexts :
       LET tab == FindByConversation(St, conv, 1) IN
       (/\ LateMessageStream(conv, fullText)
        /\ tab # Null
        /\ ~heap[tab].isLoading
        /\ InFlight(tab) = {})
         => \A e \in DOMAIN elems : elems'[e].content = elems[e].content]_vars

\* C33: when the page hears message-complete with final text fullText for
\* the conversation of a tab that has a streaming element, that element
\* holds the rendering of fullText afterwards, whatever the stream events
\* before left in it.  (The callback reads data.fullText for the terminal
\* only, so the step is the same for every fullText.)
C33_CompleteWritesFinalText ==
  [][\A r \in responses, fullText \in StreamTexts :
       LET tab == FindByConversation(St, r.conv, 1) IN
       (/\ MessageComplete(r)
        /\ pc = "ready"
        /\ tab # Null
        /\ heap[tab].streamingElement \in DOMAIN elems')
         => elems'[heap[tab].streamingElement].content
              = parseMarkdown(fullText)]_vars

\* C34: a send that reached the bridge, from the input box or from the
\* terminal, has put into its tab's messages two records and no more: a user
\* record and, right after it, an assistant placeholder
C34_SendAppendsUserAndPlaceholder ==
  \A c \in calls :
    (c.at = "sendMessage" /\ c.tab \in Range(tabs))
      => LET ms == heap[c.tab].messages
             own == RecordsOf(heap, elems, c.tab, c.id)
         IN \E i \in 1..Len(ms) :
              /\ own = {i, i + 1}
              /\ elems[ms[i]].role = "user"
              /\ elems[ms[i + 1]].role = "assistant"

\* C35: whatever a terminal's input buffer holds, Enter and Ctrl+C leave it
\* empty; backspace takes the last character off it and submits nothing;
\* Enter submits the trimmed buffer, and only when the buffer holds a
\* character that is no white space; no other key submits
C35_BufferEmptyAfterEnter ==
  \A t \in Range(tabs) : \A data \in TermKeys :
    heap[t].terminal =>
      LET inputBuffer == heap[t].buf
          r == onInput(inputBuffer, data)
      IN /\ data \in {CR, ETX} => r.buf = <<>>
         /\ data = DEL =>
              /\ r.buf = SeqOf(inputBuffer, Max(Len(inputBuffer) - 1, 0))
              /\ r.submit = <<>>
         /\ r.submit # <<>> =>
              /\ data = CR
              /\ Trim(inputBuffer) # <<>>
              /\ r.submit = <<Trim(inputBuffer)>>

\* C36: a page whose startup found the user unauthenticated (init stopped at
\* the login modal) eventually has loaded accounts, restored tabs and
\* registered its handlers, the user clicking the login button and the login
\* succeeding
C36_LoginLeadsToReady == (pc = "login") ~> (pc = "ready")

\* C37: no two open tabs bear the same default name ("Chat N" or "CLI N")
C37_DefaultNamesDistinct ==
  \A i, j \in 1..Len(tabs) :
    (i # j /\ heap[tabs[i]].name = heap[tabs[j]].name)
      => \A n \in 1..(MaxTabIds + 1), tabType \in TabTypes :
           heap[tabs[i]].name # DefaultName(tabType, n)

\* C38: the stored activeClaudeAccountId is absent or the accountId of an
\* account of the stored list, whatever calls of saveClaudeAccount,
\* removeClaudeAccount and setActiveClaudeAccount were made and however they
\* interleaved
C38_ActiveAccountIsStored ==
  (\A i \in 1..Len(cfgCalls) :
     cfgCalls[i].op \in {"saveClaudeAccount", "removeClaudeAccount",
                         "setActiveClaudeAccount"})
    => \/ cliFile.activeClaudeAccountId = Undefined
       \/ findIndex(cliFile.claudeAccounts, cliFile.activeClaudeAccountId) > 0

\* C39: when every CLIUI.updateConfig call that was made has returned, each
\* with its file written, the stored model, provider, base url and mode are
\* those of the config in memory
C39_StoredConfigIsMemory ==
  (/\ Len(cfgCalls) > 0
   /\ \A i \in 1..Len(cfgCalls) : cfgCalls[i].at = "done" /\ cfgCalls[i].written)
    => /\ cliFile.model = cliConfig.model
       /\ cliFile.provider = cliConfig.provider
       /\ cliFile.baseUrl = cliConfig.baseUrl
       /\ cliFile.mode = cliConfig.mode

\* C40: when setActiveClaudeAccount or updateAccountLastUsed finds that the
\* stored list has no account with its accountId, the call ends with the
\* error "Account <id> not found" and that step leaves the stored config as
\* it is; a call that ended with the error has prepared and written nothing
C40_UnknownAccountFails ==
  /\ [][\A i \in 1..MaxCfgCalls :
          (/\ GetClaudeAccountReturn(i)
           /\ \A k \in 1..Len(cliFile.claudeAccounts) :
                cliFile.claudeAccounts[k].accountId # cfgCalls[i].accountId)
            => /\ cfgCalls'[i].at = "done"
               /\ cfgCalls'[i].error = <<"Account", cfgCalls[i].accountId, "not found">>
               /\ cliFile' = cliFile]_vars
  /\ [](\A i \in 1..Len(cfgCalls) :
          cfgCalls[i].error # <<>>
            => /\ cfgCalls[i].at = "done"
               /\ ~cfgCalls[i].written
               /\ cfgCalls[i].partialConfig = <<>>
               /\ cfgCalls[i].newConfig = NoFile)

\* both functions were called with an account that a stored list with
\* another account does not hold, and both failed
C40_Witness ==
  /\ Len(cfgCalls) = 2
  /\ cfgCalls[1].op = "setActiveClaudeAccount"
  /\ cfgCalls[2].op = "updateAccountLastUsed"
  /\ \A i \in 1..2 : cfgCalls[i].error = NotFound("u2")
  /\ cliFile.readable
  /\ cliFile.claudeAccounts = <<ClaudeAccount("u1", 0)>>
  /\ cliFile.activeClaudeAccountId = "u1"

====
